---------------------------- MODULE Spec2Model ----------------------------
(***************************************************************************)
(* A model of the formula-evaluation and weighted-aggregation logic of the *)
(* Meinhardt assessment application:                                       *)
(*   - SmartCalculationEngine (smart_calculation_engine_updated.py), the   *)
(*     engine driven by AdvancedMeinhardt (main_ag_enhanced.py);           *)
(*   - FormulaParser / WeightedAggregator (formula_parser_complete.py);    *)
(*   - FormulaEngine / MainAGModule (main_ag_module.py).                   *)
(*                                                                         *)
(* Numbers are exact rationals [n, d] in lowest terms (Python floats are   *)
(* modelled by the reals they approximate).  Threshold strings are         *)
(* sequences of one-character strings, so that parsing is modelled by what *)
(* it does, and so are names and formula texts.                            *)
(***************************************************************************)
EXTENDS Integers, Sequences, FiniteSets, TLC

(***************************************************************************)
(* Exact rational arithmetic.                                              *)
(***************************************************************************)
Abs(x) == IF x < 0 THEN -x ELSE x

RECURSIVE GCD(_, _)
GCD(a, b) == IF b = 0 THEN a ELSE GCD(b, a % b)

Q(n, d) ==
  LET g == GCD(Abs(n), Abs(d))
      s == IF d < 0 THEN -1 ELSE 1
  IN  [n |-> (s * n) \div g, d |-> (s * d) \div g]

QInt(i) == [n |-> i, d |-> 1]
QZero == QInt(0)
QAdd(a, b) == Q(a.n * b.d + b.n * a.d, a.d * b.d)
QSub(a, b) == Q(a.n * b.d - b.n * a.d, a.d * b.d)
QMul(a, b) == Q(a.n * b.n, a.d * b.d)
QDiv(a, b) == Q(a.n * b.d, a.d * b.n)
QNeg(a) == [n |-> -a.n, d |-> a.d]
QLt(a, b) == a.n * b.d < b.n * a.d
QLe(a, b) == a.n * b.d <= b.n * a.d
QGt(a, b) == QLt(b, a)
QGe(a, b) == QLe(b, a)
QMin(a, b) == IF QLe(a, b) THEN a ELSE b
QMax(a, b) == IF QLe(a, b) THEN b ELSE a

(***************************************************************************)
(* Strings as sequences of characters, and the str methods the code uses.  *)
(***************************************************************************)
Contains(s, c) == \E i \in 1..Len(s) : s[i] = c
Drop(s, k) == SubSeq(s, k + 1, Len(s))
StartsWith(s, p) == Len(s) >= Len(p) /\ SubSeq(s, 1, Len(p)) = p
Remove(s, c) == SelectSeq(s, LAMBDA x : x # c)

RECURSIVE LStrip(_)
LStrip(s) == IF s # <<>> /\ s[1] = " " THEN LStrip(Tail(s)) ELSE s

RECURSIVE RStrip(_)
RStrip(s) ==
  IF s # <<>> /\ s[Len(s)] = " " THEN RStrip(SubSeq(s, 1, Len(s) - 1)) ELSE s

Strip(s) == RStrip(LStrip(s))

\* str.split(c): the pieces between the occurrences of c
RECURSIVE SplitAt(_, _, _)
SplitAt(s, c, cur) ==
  IF s = <<>> THEN <<cur>>
  ELSE IF s[1] = c THEN <<cur>> \o SplitAt(Tail(s), c, <<>>)
  ELSE SplitAt(Tail(s), c, Append(cur, s[1]))

Split(s, c) == SplitAt(s, c, <<>>)

Digits == {"0", "1", "2", "3", "4", "5", "6", "7", "8", "9"}

DigitVal(c) ==
  CASE c = "0" -> 0 [] c = "1" -> 1 [] c = "2" -> 2 [] c = "3" -> 3
    [] c = "4" -> 4 [] c = "5" -> 5 [] c = "6" -> 6 [] c = "7" -> 7
    [] c = "8" -> 8 [] c = "9" -> 9

RECURSIVE DigitsVal(_, _)
DigitsVal(s, acc) ==
  IF s = <<>> THEN acc ELSE DigitsVal(Tail(s), 10 * acc + DigitVal(s[1]))

RECURSIVE Pow10(_)
Pow10(k) == IF k = 0 THEN 1 ELSE 10 * Pow10(k - 1)

\* Python float(str): surrounding blanks, an optional sign, digits with at
\* most one point and at least one digit.  (Exponents, underscores, "inf"
\* and "nan" are outside the alphabet of the modelled strings.)
\* float() raised ValueError / float() returned v
FloatError == [ok |-> FALSE, v |-> QZero]
FloatOf(v) == [ok |-> TRUE, v |-> v]

\* the digits before and after the point
float_digits(ip, fp) ==
  IF (\A i \in 1..Len(ip) : ip[i] \in Digits)
       /\ (\A i \in 1..Len(fp) : fp[i] \in Digits)
       /\ Len(ip) + Len(fp) > 0
    THEN FloatOf(Q(DigitsVal(ip, 0) * Pow10(Len(fp)) + DigitsVal(fp, 0),
                   Pow10(Len(fp))))
    ELSE FloatError

float_parts(pts) ==
  IF Len(pts) = 1 THEN float_digits(pts[1], <<>>)
  ELSE IF Len(pts) = 2 THEN float_digits(pts[1], pts[2])
  ELSE FloatError

float_unsigned(body) == float_parts(Split(body, "."))

float_negated(f) == IF f.ok THEN FloatOf(QNeg(f.v)) ELSE f

float_signed(t) ==
  IF t # <<>> /\ t[1] = "-" THEN float_negated(float_unsigned(Tail(t)))
  ELSE IF t # <<>> /\ t[1] = "+" THEN float_unsigned(Tail(t))
  ELSE float_unsigned(t)

float(str) == float_signed(Strip(str))


(***************************************************************************)
(* Rating classifier: SmartCalculationEngine._apply_thresholds_smart.      *)
(* A thresholds dict is a record [good, satisfactory, needs_improvement]   *)
(* of strings; a missing key reads as the empty string.  The result is a   *)
(* rating, or the name of the exception the call raises.                   *)
(***************************************************************************)
Ratings == {"Good", "Satisfactory", "Needs Improvement"}
Raised == {"ValueError", "TypeError"}

QHundred == QInt(100)
QOne == QInt(1)

\* the outcomes of the nested parse_threshold:
\*   "ok"    an (op, value) pair        "none"  the pair (None, None)
\*   "bare"  the function ends without a return statement: it returns a
\*           bare None, and the caller's "op, threshold_val = ..." raises
\*           TypeError
\*   "ValueError"  float() raised outside any try
ParsedOp(op, v) == [k |-> "ok", op |-> op, lo |-> v, hi |-> v]
ParsedRange(a, b) == [k |-> "ok", op |-> "range", lo |-> a, hi |-> b]
ParsedNone == [k |-> "none", op |-> "", lo |-> QZero, hi |-> QZero]
ParsedBare == [k |-> "bare", op |-> "", lo |-> QZero, hi |-> QZero]
ParsedValueError == [k |-> "ValueError", op |-> "", lo |-> QZero, hi |-> QZero]

\* "if has_percent and val > 1: val = val / 100"
percent_to_decimal(has_percent, val) ==
  IF has_percent /\ QGt(val, QOne) THEN QDiv(val, QHundred) ELSE val

\* the four operator branches: float() is not guarded there
parsed_operator(op, f, has_percent) ==
  IF f.ok THEN ParsedOp(op, percent_to_decimal(has_percent, f.v))
  ELSE ParsedValueError

parse_operator(op, rest, has_percent) ==
  parsed_operator(op, float(Strip(rest)), has_percent)

\* the range branch: float() is guarded, and a string with more than one
\* "-" leaves the function without a return statement
parsed_range(lo, hi, has_percent) ==
  IF lo.ok /\ hi.ok
    THEN IF has_percent /\ QGt(lo.v, QOne)
           THEN ParsedRange(QDiv(lo.v, QHundred), QDiv(hi.v, QHundred))
           ELSE ParsedRange(lo.v, hi.v)
    ELSE ParsedNone

parse_range(parts, has_percent) ==
  IF Len(parts) = 2
    THEN parsed_range(float(Strip(parts[1])), float(Strip(parts[2])), has_percent)
    ELSE ParsedBare

\* the final branch: a bare number reads as ">="
parsed_bare(f, has_percent) ==
  IF f.ok THEN ParsedOp(">=", percent_to_decimal(has_percent, f.v))
  ELSE ParsedNone

parse_cleaned(str, has_percent) ==
  IF StartsWith(str, <<">", "=">>)
    THEN parse_operator(">=", Drop(str, 2), has_percent)
  ELSE IF StartsWith(str, <<">">>)
    THEN parse_operator(">", Drop(str, 1), has_percent)
  ELSE IF StartsWith(str, <<"<", "=">>)
    THEN parse_operator("<=", Drop(str, 2), has_percent)
  ELSE IF StartsWith(str, <<"<">>)
    THEN parse_operator("<", Drop(str, 1), has_percent)
  ELSE IF Contains(str, "-")
    THEN parse_range(Split(str, "-"), has_percent)
  ELSE parsed_bare(float(str), has_percent)

parse_threshold(threshold_str) ==
  IF threshold_str = <<>> THEN ParsedNone
  ELSE parse_cleaned(Strip(Remove(Strip(threshold_str), "%")),
                     Contains(Strip(threshold_str), "%"))

\* "op, threshold_val = parse_threshold(...)": what the unpacking raises
parse_raises(p) ==
  IF p.k = "ValueError" THEN "ValueError"
  ELSE IF p.k = "bare" THEN "TypeError"
  ELSE "no"

in_range(p, value) == QLe(p.lo, value) /\ QLe(value, p.hi)

\* the three "Apply thresholds" blocks
good_applies(p, value) ==
  /\ p.k = "ok"
  /\ \/ p.op = ">" /\ QGt(value, p.lo)
     \/ p.op = ">=" /\ QGe(value, p.lo)
     \/ p.op = "range" /\ in_range(p, value)

satisfactory_applies(p, value) ==
  /\ p.k = "ok"
  /\ \/ p.op = "range" /\ in_range(p, value)
     \/ p.op = ">=" /\ QGe(value, p.lo)
     \/ p.op = ">" /\ QGt(value, p.lo)

needs_applies(p, value) ==
  /\ p.k = "ok"
  /\ \/ p.op = "<" /\ QLt(value, p.lo)
     \/ p.op = "<=" /\ QLe(value, p.lo)

\* default thresholds for decimal values, also the final fallback
default_band(value) ==
  IF QGe(value, Q(9, 10)) THEN "Good"
  ELSE IF QGe(value, Q(7, 10)) THEN "Satisfactory"
  ELSE "Needs Improvement"

no_thresholds(thresholds) ==
  /\ thresholds.good = <<>>
  /\ thresholds.satisfactory = <<>>
  /\ thresholds.needs_improvement = <<>>

\* the three blocks in order: the first that applies returns
first_match(value, g, s, n) ==
  IF parse_raises(g) # "no" THEN parse_raises(g)
  ELSE IF good_applies(g, value) THEN "Good"
  ELSE IF parse_raises(s) # "no" THEN parse_raises(s)
  ELSE IF satisfactory_applies(s, value) THEN "Satisfactory"
  ELSE IF parse_raises(n) # "no" THEN parse_raises(n)
  ELSE IF needs_applies(n, value) THEN "Needs Improvement"
  ELSE default_band(value)

apply_thresholds_smart(value, thresholds) ==
  IF no_thresholds(thresholds) THEN default_band(value)
  ELSE first_match(value, parse_threshold(thresholds.good),
                   parse_threshold(thresholds.satisfactory),
                   parse_threshold(thresholds.needs_improvement))

\* AdvancedMeinhardt.get_rating_for_value: the same three blocks over its
\* own nested parse_threshold, which is line for line the engine's.
get_rating_for_value(value, thresholds) ==
  IF no_thresholds(thresholds) THEN default_band(value)
  ELSE first_match(value, parse_threshold(thresholds.good),
                   parse_threshold(thresholds.satisfactory),
                   parse_threshold(thresholds.needs_improvement))


(***************************************************************************)
(* Result dicts.  One record shape serves every result dict of the three   *)
(* implementations; a key the dict does not hold reads as the default that *)
(* the code's .get(key, default) supplies.                                 *)
(*   kind "num": value is the number      kind "str": text is the string   *)
(*   kind "none": the value is None       kind "raise": the call raised    *)
(*                                        the exception named in error     *)
(***************************************************************************)
Result(kind, value, text, rating, type, needs_review, status, error) ==
  [kind |-> kind, value |-> value, text |-> text, rating |-> rating,
   type |-> type, needs_review |-> needs_review, status |-> status,
   error |-> error]

NumResult(value, rating, type) ==
  Result("num", value, "", rating, type, FALSE, "", "")
TextResult(text, rating, type) ==
  Result("str", QZero, text, rating, type, FALSE, "", "")
ErrorResult(error) == Result("num", QZero, "", "N/A", "", FALSE, "", error)
ReviewResult(warning) ==
  Result("num", QZero, "", "N/A", "quantitative", TRUE, "", warning)
RaisedResult(exception) ==
  Result("raise", QZero, "", "", "", FALSE, "", exception)
NoResult == Result("none", QZero, "", "", "", FALSE, "pending", "")

(***************************************************************************)
(* SmartCalculationEngine.aggregate_to_ps / aggregate_to_kt.               *)
(* db is the loaded JSON database: assessment_criteria, performance_       *)
(* signals and key_topics are functions from names to records.             *)
(***************************************************************************)
\* float(x.get('weight', 1.0) or 1.0): a weight of 0 reads as 1.0
weight_or_one(table, name) ==
  IF name \in DOMAIN table /\ table[name].weight # 0
    THEN QInt(table[name].weight)
    ELSE QOne

\* "rating = self._apply_thresholds_smart(value, thresholds)" and the
\* returned dict; an exception of the classifier leaves the aggregator
rated_as(value, rating) ==
  IF rating \in Raised THEN RaisedResult(rating) ELSE NumResult(value, rating, "")

rated(value, thresholds) ==
  rated_as(value, apply_thresholds_smart(value, thresholds))

aggregate_to_ps(db, ps_name, ac_results) ==
  IF ps_name \notin DOMAIN db.performance_signals THEN ErrorResult("PS not found")
  ELSE
    LET ps_data == db.performance_signals[ps_name]
        ps_acs  == ps_data.assessment_criteria
        step(acc, ac_name) ==
          IF ac_name \notin DOMAIN ac_results THEN acc
          ELSE
            LET weight    == weight_or_one(db.assessment_criteria, ac_name)
                ac_result == ac_results[ac_name]
            IN  IF ac_result.kind = "num" /\ QGt(ac_result.value, QZero)
                  THEN IF ~ac_result.needs_review
                         THEN [weighted_sum |->
                                 QAdd(acc.weighted_sum, QMul(ac_result.value, weight)),
                               total_weight |-> QAdd(acc.total_weight, weight),
                               has_values |-> TRUE,
                               skipped |-> acc.skipped]
                         ELSE [acc EXCEPT !.skipped = @ + 1]
                ELSE IF ac_result.type \in {"qualitative", "descriptive"}
                  THEN [acc EXCEPT !.skipped = @ + 1]
                ELSE acc
        \* the loop over ps_acs: after[i] is the state after i iterations
        after[i \in 0..Len(ps_acs)] ==
          IF i = 0 THEN [weighted_sum |-> QZero, total_weight |-> QZero,
                         has_values |-> FALSE, skipped |-> 0]
          ELSE step(after[i - 1], ps_acs[i])
        sums == after[Len(ps_acs)]
    IN  IF ps_acs = <<>> THEN ErrorResult("No ACs found for PS")
        ELSE IF QGt(sums.total_weight, QZero) /\ sums.has_values
          THEN rated(QDiv(sums.weighted_sum, sums.total_weight), ps_data.thresholds)
        ELSE ErrorResult("No valid AC values")

aggregate_to_kt(db, kt_name, ps_results) ==
  IF kt_name \notin DOMAIN db.key_topics THEN ErrorResult("KT not found")
  ELSE
    LET kt_data == db.key_topics[kt_name]
        \* the PSs the KT lists, else the PSs that name the KT
        kt_pss  == IF kt_data.performance_signals # <<>>
                     THEN kt_data.performance_signals
                     ELSE SelectSeq(db.ps_order,
                            LAMBDA ps : db.performance_signals[ps].key_topic = kt_name)
        step(acc, ps_name) ==
          IF ps_name \notin DOMAIN ps_results THEN acc
          ELSE
            LET weight == weight_or_one(db.performance_signals, ps_name)
                r      == ps_results[ps_name]
            IN  IF r.kind = "num" /\ QGt(r.value, QZero)
                  THEN [weighted_sum |-> QAdd(acc.weighted_sum, QMul(r.value, weight)),
                        total_weight |-> QAdd(acc.total_weight, weight),
                        has_values |-> TRUE]
                  ELSE acc
        after[i \in 0..Len(kt_pss)] ==
          IF i = 0 THEN [weighted_sum |-> QZero, total_weight |-> QZero,
                         has_values |-> FALSE]
          ELSE step(after[i - 1], kt_pss[i])
        sums == after[Len(kt_pss)]
    IN  IF kt_pss = <<>> THEN ErrorResult("No PSs found for KT")
        ELSE IF QGt(sums.total_weight, QZero) /\ sums.has_values
          THEN rated(QDiv(sums.weighted_sum, sums.total_weight), kt_data.thresholds)
        ELSE ErrorResult("No valid PS values")

(***************************************************************************)
(* WeightedAggregator (formula_parser_complete.py), percent scale.         *)
(* ac_results maps the names of the parent's children to their results;    *)
(* order is the dict's iteration order.                                    *)
(***************************************************************************)
\* WeightedAggregator._get_rating
WeightedAggregator_get_rating(value) ==
  IF QGe(value, QInt(85)) THEN "Good"
  ELSE IF QGe(value, QInt(70)) THEN "Satisfactory"
  ELSE "Needs Improvement"

\* the body shared, statement for statement, by aggregate_to_ps and
\* aggregate_to_kt: results, their iteration order, the children's metadata
weighted_average(results, order, metadata) ==
  LET \* min(float(value), 100): float() of a non-numeric string raises
      \* ValueError, float(None) raises TypeError
      unfloatable == {i \in 1..Len(order) : results[order[i]].kind # "num"}
      first_bad   == results[order[CHOOSE i \in unfloatable :
                                        \A j \in unfloatable : i <= j]]
      weight_of(name) ==
        IF name \in DOMAIN metadata THEN metadata[name].weight ELSE 0
      step(acc, name) ==
        LET value == QMin(results[name].value, QHundred)
            w     == weight_of(name)
        IN  IF w > 0
              THEN [weighted_sum |->
                      QAdd(acc.weighted_sum, QMul(value, Q(w, 100))),
                    total_weight |-> QAdd(acc.total_weight, Q(w, 100))]
              ELSE acc
      after[i \in 0..Len(order)] ==
        IF i = 0 THEN [weighted_sum |-> QZero, total_weight |-> QZero]
        ELSE step(after[i - 1], order[i])
      sums == after[Len(order)]
      \* sum(r.get('value', 0) for r in results.values())
      plain[i \in 0..Len(order)] ==
        IF i = 0 THEN QZero ELSE QAdd(plain[i - 1], results[order[i]].value)
      mean == IF order = <<>> THEN QZero
              ELSE QDiv(plain[Len(order)], QInt(Len(order)))
      value == QMin(IF QGt(sums.total_weight, QZero)
                      THEN QDiv(sums.weighted_sum, sums.total_weight)
                      ELSE mean,
                    QHundred)
  IN  IF unfloatable # {}
        THEN RaisedResult(IF first_bad.kind = "none" THEN "TypeError"
                          ELSE "ValueError")
        ELSE Result("num", value, "", WeightedAggregator_get_rating(value), "",
                    FALSE, "calculated", "")

WeightedAggregator_aggregate_to_ps(ac_results, order, all_acs) ==
  weighted_average(ac_results, order, all_acs)

WeightedAggregator_aggregate_to_kt(ps_results, order, all_pss) ==
  weighted_average(ps_results, order, all_pss)

(***************************************************************************)
(* MainAGModule._calculate_ps_score / _calculate_kt_score, percent scale.  *)
(* results maps child names to their entries of calculation_results.       *)
(***************************************************************************)
\* str.lower() on the qualitative values of the model
Lower(text) ==
  CASE text = "Yes" -> "yes"
    [] text = "No" -> "no"
    [] text = "Partially Applied" -> "partially applied"
    [] OTHER -> text

\* MainAGModule._qualitative_to_score; 0 - 1 stands for None
qualitative_to_score(text) ==
  LET value_lower == Lower(text)
  IN  IF value_lower \in {"yes", "completed", "done", "good"} THEN 100
      ELSE IF value_lower \in {"partially", "partially applied", "in progress",
                               "satisfactory"} THEN 75
      ELSE IF value_lower \in {"no", "not completed", "pending",
                               "needs improvement"} THEN 25
      ELSE 0 - 1

\* MainAGModule._get_rating
MainAG_get_rating(score) ==
  IF QGe(score, QInt(90)) THEN "Good"
  ELSE IF QGe(score, QInt(70)) THEN "Satisfactory"
  ELSE "Needs Improvement"

MainAG_average(scores, weights) ==
  LET weight_sum[i \in 0..Len(weights)] ==
        IF i = 0 THEN 0 ELSE weight_sum[i - 1] + weights[i]
      product_sum[i \in 0..Len(scores)] ==
        IF i = 0 THEN QZero
        ELSE QAdd(product_sum[i - 1], QMul(scores[i], QInt(weights[i])))
      total_weight == weight_sum[Len(weights)]
      products     == product_sum[Len(scores)]
  IN  IF scores # <<>>
        THEN IF total_weight > 0
               THEN LET score == QDiv(products, QInt(total_weight))
                    IN  Result("num", score, "", MainAG_get_rating(score), "",
                               FALSE, "calculated", "")
               ELSE Result("none", QZero, "", "N/A", "", FALSE, "error",
                           "Total weight is zero")
        ELSE Result("none", QZero, "", "N/A", "", FALSE, "incomplete", "")

MainAG_calculate_ps_score(db, ps_name, results) ==
  LET mine == SelectSeq(db.ac_order, LAMBDA ac :
                /\ db.assessment_criteria[ac].performance_signal = ps_name
                /\ ac \in DOMAIN results
                /\ results[ac].status = "calculated"
                /\ results[ac].kind # "none"
                /\ (results[ac].kind = "str"
                      => qualitative_to_score(results[ac].text) >= 0))
      score_of(ac) == IF results[ac].kind = "str"
                        THEN QInt(qualitative_to_score(results[ac].text))
                        ELSE results[ac].value
  IN  MainAG_average([i \in 1..Len(mine) |-> score_of(mine[i])],
                     [i \in 1..Len(mine) |-> db.assessment_criteria[mine[i]].weight])

MainAG_calculate_kt_score(db, kt_name, results) ==
  LET mine == SelectSeq(db.ps_order, LAMBDA ps :
                /\ db.performance_signals[ps].key_topic = kt_name
                /\ ps \in DOMAIN results
                /\ results[ps].status = "calculated"
                /\ results[ps].kind # "none")
  IN  MainAG_average([i \in 1..Len(mine) |-> results[mine[i]].value],
                     [i \in 1..Len(mine) |-> db.performance_signals[mine[i]].weight])

(***************************************************************************)
(* Python expressions.  The three evaluators hand a cleaned text to        *)
(* eval() or ast.parse(); the text is read here as Python reads it, and a  *)
(* parse computes the value at once.  A parse result is                    *)
(*   [ok, err, v, i]: ok     the text up to i - 1 is syntactically valid   *)
(*                    err    evaluating it raises                          *)
(*                    v      its value otherwise                           *)
(* sem names whose evaluation it is: "eval" the builtin, "eval_node"       *)
(* FormulaParser._eval_node.                                               *)
(***************************************************************************)
Token(t, s, v) == [t |-> t, s |-> s, v |-> v]
EndToken == Token("end", "", QZero)

RECURSIVE digits_end(_, _)
\* the index after the run of digits that starts at i
digits_end(s, i) ==
  IF i <= Len(s) /\ s[i] \in Digits THEN digits_end(s, i + 1) ELSE i

\* the index after the number literal that starts at i
number_end(s, i) ==
  IF s[i] = "." THEN digits_end(s, i + 1)
  ELSE IF digits_end(s, i) <= Len(s) /\ s[digits_end(s, i)] = "."
    THEN digits_end(s, digits_end(s, i) + 1)
  ELSE digits_end(s, i)

\* a decimal integer literal may not start with 0 unless it is all zeros
number_token(text) ==
  IF ~Contains(text, ".") /\ Len(text) > 1 /\ text[1] = "0"
       /\ \E k \in 1..Len(text) : text[k] # "0"
    THEN Token("bad", "", QZero)
    ELSE Token("num", "", float(text).v)

RECURSIVE py_tokens(_, _)
py_tokens(s, i) ==
  IF i > Len(s) THEN <<>>
  ELSE IF s[i] = " " THEN py_tokens(s, i + 1)
  ELSE IF s[i] \in Digits \/ (s[i] = "." /\ i < Len(s) /\ s[i + 1] \in Digits)
    THEN <<number_token(SubSeq(s, i, number_end(s, i) - 1))>>
           \o py_tokens(s, number_end(s, i))
  ELSE IF i < Len(s) /\ s[i] = "*" /\ s[i + 1] = "*"
    THEN <<Token("op", "**", QZero)>> \o py_tokens(s, i + 2)
  ELSE IF i < Len(s) /\ s[i] = "/" /\ s[i + 1] = "/"
    THEN <<Token("op", "//", QZero)>> \o py_tokens(s, i + 2)
  ELSE IF s[i] \in {"+", "-", "*", "/", "%", "(", ")"}
    THEN <<Token("op", s[i], QZero)>> \o py_tokens(s, i + 1)
  ELSE IF i + 2 <= Len(s) /\ SubSeq(s, i, i + 2) = <<".", ".", ".">>
    THEN <<Token("ellipsis", "", QZero)>> \o py_tokens(s, i + 3)
  ELSE <<Token("bad", "", QZero)>> \o py_tokens(s, i + 1)

TokenAt(toks, i) == IF i <= Len(toks) THEN toks[i] ELSE EndToken
IsOp(toks, i, ops) == TokenAt(toks, i).t = "op" /\ TokenAt(toks, i).s \in ops

Parsed(v, i) == [ok |-> TRUE, err |-> FALSE, zero |-> FALSE, v |-> v, i |-> i]
Raises(i) == [ok |-> TRUE, err |-> TRUE, zero |-> FALSE, v |-> QZero, i |-> i]
ZeroDivisionError(i) ==
  [ok |-> TRUE, err |-> TRUE, zero |-> TRUE, v |-> QZero, i |-> i]
SyntaxError == [ok |-> FALSE, err |-> TRUE, zero |-> FALSE, v |-> QZero, i |-> 0]

\* the largest exponent and result the model computes exactly
MaxPower == 8
RECURSIVE int_power(_, _)
int_power(base, k) == IF k = 0 THEN QOne ELSE QMul(base, int_power(base, k - 1))

\* floor of a rational
QFloor(a) == QInt(a.n \div a.d)

\* operator.pow and the ** of eval on the model's numbers: an integer
\* exponent of at most MaxPower (every power the model's inputs form)
power(a, b, i) ==
  IF b.d # 1 \/ Abs(b.n) > MaxPower THEN Raises(i)
  ELSE IF b.n >= 0 THEN Parsed(int_power(a, b.n), i)
  ELSE IF a.n = 0 THEN ZeroDivisionError(i)
  ELSE Parsed(QDiv(QOne, int_power(a, -b.n)), i)

\* a binary operation on two values
binary(op, a, b, i, sem) ==
  CASE op = "+" -> Parsed(QAdd(a, b), i)
    [] op = "-" -> Parsed(QSub(a, b), i)
    [] op = "*" -> Parsed(QMul(a, b), i)
    [] op = "/" -> IF b.n # 0 THEN Parsed(QDiv(a, b), i)
                   ELSE IF sem = "eval_node" THEN Parsed(QZero, i)
                   ELSE ZeroDivisionError(i)
    [] op = "//" -> IF sem = "eval_node" THEN Raises(i)
                    ELSE IF b.n = 0 THEN ZeroDivisionError(i)
                    ELSE Parsed(QFloor(QDiv(a, b)), i)
    [] op = "%" -> IF b.n = 0 THEN ZeroDivisionError(i)
                   ELSE Parsed(QSub(a, QMul(b, QFloor(QDiv(a, b)))), i)
    [] op = "**" -> power(a, b, i)

\* left op right, where both have been parsed
combine(op, left, right, sem) ==
  IF ~right.ok THEN SyntaxError
  ELSE IF left.err THEN [left EXCEPT !.i = right.i]
  ELSE IF right.err THEN right
  ELSE binary(op, left.v, right.v, right.i, sem)

negate(op, operand) ==
  IF ~operand.ok \/ operand.err \/ op = "+" THEN operand
  ELSE Parsed(QNeg(operand.v), operand.i)

\* a call f(...) or an empty tuple (): the builtin raises TypeError on it,
\* sooner or later; _eval_node returns 0.0 for a node it does not know
unknown_node(i, sem) == IF sem = "eval_node" THEN Parsed(QZero, i) ELSE Raises(i)

closing(toks, inner, sem) ==
  IF inner.ok /\ IsOp(toks, inner.i, {")"})
    THEN [inner EXCEPT !.i = @ + 1]
    ELSE SyntaxError

\* a call evaluates the callee, then the argument, then fails to call
call_of(left, arg, i, sem) ==
  IF sem = "eval_node" THEN Parsed(QZero, i)
  ELSE IF left.err THEN [left EXCEPT !.i = i]
  ELSE IF arg.err THEN [arg EXCEPT !.i = i]
  ELSE Raises(i)

called(toks, left, arg, sem) ==
  IF arg.ok /\ IsOp(toks, arg.i, {")"}) THEN call_of(left, arg, arg.i + 1, sem)
  ELSE SyntaxError

RECURSIVE py_sum(_, _, _), py_sum_rest(_, _, _), py_term(_, _, _),
          py_term_rest(_, _, _), py_factor(_, _, _), py_power(_, _, _),
          py_trailers(_, _, _), py_atom(_, _, _)

py_atom(toks, i, sem) ==
  IF TokenAt(toks, i).t = "num" THEN Parsed(TokenAt(toks, i).v, i + 1)
  ELSE IF TokenAt(toks, i).t = "ellipsis" THEN Raises(i + 1)
  ELSE IF IsOp(toks, i, {"("})
    THEN IF IsOp(toks, i + 1, {")"}) THEN unknown_node(i + 2, sem)
         ELSE closing(toks, py_sum(toks, i + 1, sem), sem)
  ELSE SyntaxError

py_trailers(toks, left, sem) ==
  IF left.ok /\ IsOp(toks, left.i, {"("})
    THEN IF IsOp(toks, left.i + 1, {")"})
           THEN py_trailers(toks, call_of(left, left, left.i + 2, sem), sem)
           ELSE py_trailers(toks,
                            called(toks, left, py_sum(toks, left.i + 1, sem), sem),
                            sem)
    ELSE left

py_power(toks, base, sem) ==
  IF base.ok /\ IsOp(toks, base.i, {"**"})
    THEN combine("**", base, py_factor(toks, base.i + 1, sem), sem)
    ELSE base

py_factor(toks, i, sem) ==
  IF IsOp(toks, i, {"+", "-"})
    THEN negate(TokenAt(toks, i).s, py_factor(toks, i + 1, sem))
    ELSE py_power(toks, py_trailers(toks, py_atom(toks, i, sem), sem), sem)

py_term_rest(toks, left, sem) ==
  IF left.ok /\ IsOp(toks, left.i, {"*", "/", "//", "%"})
    THEN py_term_rest(toks, combine(TokenAt(toks, left.i).s, left,
                                    py_factor(toks, left.i + 1, sem), sem), sem)
    ELSE left

py_term(toks, i, sem) == py_term_rest(toks, py_factor(toks, i, sem), sem)

py_sum_rest(toks, left, sem) ==
  IF left.ok /\ IsOp(toks, left.i, {"+", "-"})
    THEN py_sum_rest(toks, combine(TokenAt(toks, left.i).s, left,
                                   py_term(toks, left.i + 1, sem), sem), sem)
    ELSE left

py_sum(toks, i, sem) == py_sum_rest(toks, py_term(toks, i, sem), sem)

\* the whole text is one expression
whole(toks, parsed) ==
  IF parsed.ok /\ parsed.i = Len(toks) + 1 THEN parsed ELSE SyntaxError

parse_tokens(toks, sem) == whole(toks, py_sum(toks, 1, sem))

\* eval() skips leading blanks, ast.parse() takes them for an indent
py_parse(text, sem) ==
  IF sem = "eval_node" /\ text # <<>> /\ text[1] = " " THEN SyntaxError
  ELSE parse_tokens(py_tokens(text, 1), sem)

\* the value as [ok, v], ok FALSE when parsing or evaluating raised
value_of(parsed) ==
  IF parsed.ok /\ ~parsed.err THEN FloatOf(parsed.v) ELSE FloatError

\* eval(text) followed by float()
py_eval(text) == value_of(py_parse(text, "eval"))


(***************************************************************************)
(* Text: names and formulas are sequences of characters, and the regular   *)
(* expressions of the engine are modelled by the scans they perform.  The  *)
(* alphabet is printable ASCII with the blank as its only white space.     *)
(***************************************************************************)
Chars(str) == [i \in 1..Len(str) |-> SubSeq(str, i, i)]
Range(s) == {s[i] : i \in 1..Len(s)}

\* the characters of \w in code-point order, which is the order of sorted()
WordOrder ==
  Chars("0123456789ABCDEFGHIJKLMNOPQRSTUVWXYZ_abcdefghijklmnopqrstuvwxyz")
WordChars == Range(WordOrder)
UpperCase == Range(Chars("ABCDEFGHIJKLMNOPQRSTUVWXYZ"))
Operators == {"+", "-", "*", "/"}

\* str.lower()
LowerOf == [c \in UpperCase |->
              WordOrder[27 + CHOOSE k \in 11..36 : WordOrder[k] = c]]
str_lower(s) == [i \in 1..Len(s) |-> IF s[i] \in UpperCase THEN LowerOf[s[i]] ELSE s[i]]

\* the first index at or after i whose character is (member) or is not
\* (~member) in chars; Len(s) + 1 when there is none
RECURSIVE span(_, _, _, _)
span(s, i, chars, member) ==
  IF i > Len(s) \/ (s[i] \in chars) = member THEN i
  ELSE span(s, i + 1, chars, member)

\* \b between s[k] and s[k + 1]
boundary(s, k) ==
  (k >= 1 /\ s[k] \in WordChars) # (k < Len(s) /\ s[k + 1] \in WordChars)

\* re.search for a literal p, written \bp\b when bounded: the index of the
\* first match at or after i, 0 when there is none
RECURSIVE find_match(_, _, _, _)
find_match(s, p, bounded, i) ==
  IF i + Len(p) - 1 > Len(s) THEN 0
  ELSE IF SubSeq(s, i, i + Len(p) - 1) = p
            /\ (bounded => boundary(s, i - 1) /\ boundary(s, i + Len(p) - 1))
    THEN i
  ELSE find_match(s, p, bounded, i + 1)

\* "p in s"
In(p, s) == find_match(s, p, FALSE, 1) > 0

\* re.sub(p, r, s, flags=re.IGNORECASE) for a literal p from index i on;
\* low is s.lower() and p is in lower case
RECURSIVE re_sub(_, _, _, _, _, _)
re_sub(low, s, p, bounded, r, i) ==
  IF p = <<>>
    THEN IF i > Len(s) THEN r ELSE r \o <<s[i]>> \o re_sub(low, s, p, bounded, r, i + 1)
  ELSE IF find_match(low, p, bounded, i) = 0 THEN SubSeq(s, i, Len(s))
  ELSE SubSeq(s, i, find_match(low, p, bounded, i) - 1) \o r
         \o re_sub(low, s, p, bounded, r, find_match(low, p, bounded, i) + Len(p))

\* re.sub(r'[^\w\s]', ' ', s).split(): the words of s from index i on
RECURSIVE words_from(_, _)
words_from(s, i) ==
  IF span(s, i, WordChars, TRUE) > Len(s) THEN <<>>
  ELSE <<SubSeq(s, span(s, i, WordChars, TRUE),
                span(s, span(s, i, WordChars, TRUE), WordChars, FALSE) - 1)>>
         \o words_from(s, span(s, span(s, i, WordChars, TRUE), WordChars, FALSE))

words(s) == Range(words_from(s, 1))

\* ' '.join(s.split()) from index i on, appended to out
RECURSIVE join_split(_, _, _)
join_split(s, i, out) ==
  IF i > Len(s) THEN out
  ELSE IF s[i] # " " THEN join_split(s, i + 1, Append(out, s[i]))
  ELSE IF out = <<>> \/ out[Len(out)] = " " THEN join_split(s, i + 1, out)
  ELSE join_split(s, i + 1, Append(out, " "))

\* SmartCalculationEngine.clean_text (the encoding artifacts it deletes are
\* outside the alphabet)
clean_text(text) == RStrip(join_split(text, 1, <<>>))

\* sorted() of a set of strings, and ' '.join()
RECURSIVE str_less(_, _)
str_less(a, b) ==
  IF a = <<>> THEN b # <<>>
  ELSE IF b = <<>> THEN FALSE
  ELSE IF a[1] = b[1] THEN str_less(Tail(a), Tail(b))
  ELSE (CHOOSE k \in 1..Len(WordOrder) : WordOrder[k] = a[1])
         < (CHOOSE k \in 1..Len(WordOrder) : WordOrder[k] = b[1])

first_word(S) == CHOOSE x \in S : \A y \in S \ {x} : str_less(x, y)

RECURSIVE join_sorted(_)
join_sorted(S) ==
  IF S = {} THEN <<>>
  ELSE IF Cardinality(S) = 1 THEN first_word(S)
  ELSE first_word(S) \o <<" ">> \o join_sorted(S \ {first_word(S)})

\* str(float) of a whole number
RECURSIVE str_int(_)
str_int(n) ==
  IF n < 10 THEN <<WordOrder[n + 1]>>
  ELSE Append(str_int(n \div 10), WordOrder[(n % 10) + 1])

str_float(v) ==
  (IF v.n < 0 THEN <<"-">> ELSE <<>>) \o str_int(Abs(v.n)) \o <<".", "0">>

(***************************************************************************)
(* SmartCalculationEngine: matching data points to a formula, substituting *)
(* their values and evaluating the result.  dp_values is the dict of       *)
(* stored values in insertion order, a sequence of [name, value]; the      *)
(* values are whole numbers held as floats.                                *)
(***************************************************************************)
\* re.sub(r'\s*\([^)]*\)\s*$', '', dp_name): the index of the "(" of the
\* parenthetical suffix at or after j, Len(s) + 1 when s has none
RECURSIVE suffix_start(_, _)
suffix_start(s, j) ==
  IF j > Len(s) THEN j
  ELSE IF /\ s[j] = "("
          /\ span(s, j + 1, {")"}, TRUE) <= Len(s)
          /\ span(s, span(s, j + 1, {")"}, TRUE) + 1, {" "}, FALSE) > Len(s)
    THEN j
  ELSE suffix_start(s, j + 1)

base_name(dp_name) == Strip(SubSeq(dp_name, 1, suffix_start(dp_name, 1) - 1))

\* re.findall(r'\(([A-Z]+[A-Z0-9]*)\)', dp_name) from index i on
RECURSIVE abbreviations(_, _)
abbreviations(s, i) ==
  IF i >= Len(s) THEN <<>>
  ELSE IF /\ s[i] = "(" /\ s[i + 1] \in UpperCase
          /\ span(s, i + 1, UpperCase \cup Digits, FALSE) <= Len(s)
          /\ s[span(s, i + 1, UpperCase \cup Digits, FALSE)] = ")"
    THEN <<SubSeq(s, i + 1, span(s, i + 1, UpperCase \cup Digits, FALSE) - 1)>>
           \o abbreviations(s, span(s, i + 1, UpperCase \cup Digits, FALSE) + 1)
  ELSE abbreviations(s, i + 1)

\* the five patterns of step 1, for an abbreviation and a formula in lower
\* case (re.IGNORECASE)
abbrev_found(abbrev, formula) ==
  \/ In(<<"(">> \o abbrev \o <<")">>, formula)
  \/ In(<<"[">> \o abbrev \o <<"]">>, formula)
  \/ In(abbrev \o <<"/">>, formula)
  \/ In(<<"/">> \o abbrev, formula)
  \/ find_match(formula, abbrev, TRUE, 1) > 0

StopWords ==
  {Chars("the"), Chars("of"), Chars("and"), Chars("for"), Chars("with"),
   Chars("from"), Chars("to"), Chars("in"), Chars("on"), Chars("at"),
   Chars("by")}
UnimportantWords ==
  {Chars("the"), Chars("of"), Chars("and"), Chars("for"), Chars("value"),
   Chars("number"), Chars("total")}
important_keywords ==
  {Chars("earned"), Chars("planned"), Chars("actual"), Chars("budget"),
   Chars("cost"), Chars("value"), Chars("milestone"), Chars("completion"),
   Chars("approved"), Chars("original"), Chars("latest"),
   Chars("construction"), Chars("gfa"), Chars("bua"), Chars("cgi"),
   Chars("modularized"), Chars("risk")}

\* step 2: max(0.95, min(0.85 + coverage * 0.1, 0.98))
substring_score(base_lower, formula_lower) ==
  QMax(Q(95, 100),
       QMin(QAdd(Q(85, 100),
                 QMul((IF formula_lower = <<>> THEN QZero
                       ELSE Q(Len(base_lower), Len(formula_lower))),
                      Q(1, 10))),
            Q(98, 100)))

\* step 4: all the formula's words are words of the data point
subset_score(formula_words, dp_words) ==
  IF formula_words # {} /\ formula_words \subseteq dp_words
    THEN QAdd(Q(75, 100),
              QMul(Q(Cardinality(formula_words), Cardinality(dp_words)),
                   Q(15, 100)))
    ELSE QZero

\* step 5: the overlap of the words, weighted
overlap_score(common, formula_words, dp_words_important) ==
  IF common = {} THEN QZero
  ELSE QMul(QMul(QAdd(QMul(Q(Cardinality(common), Cardinality(formula_words)),
                           Q(8, 10)),
                      QMul(Q(Cardinality(common), Cardinality(dp_words_important)),
                           Q(2, 10))),
                 Q(85, 100)),
            IF common \cap important_keywords # {} THEN Q(13, 10) ELSE QOne)

score_steps(abbrevs, base_lower, formula_lower, formula_words, dp_words) ==
  IF \E k \in 1..Len(abbrevs) : abbrev_found(str_lower(abbrevs[k]), formula_lower)
    THEN Q(98, 100)
  ELSE IF In(base_lower, formula_lower)
    THEN substring_score(base_lower, formula_lower)
  ELSE IF In(join_sorted(formula_words), base_lower) THEN Q(93, 100)
  ELSE QMax(subset_score(formula_words, dp_words),
            overlap_score((dp_words \ UnimportantWords) \cap formula_words,
                          formula_words, dp_words \ UnimportantWords))

score_dp_match_enhanced(dp_name, formula, formula_words) ==
  score_steps(abbreviations(dp_name, 1), str_lower(base_name(dp_name)),
              str_lower(formula), formula_words,
              words(str_lower(base_name(dp_name))))

\* a matcher that takes only a DP scoring above 0.98
matching_dps_strict(formula_clean, formula_words, dp_values) ==
  SelectSeq(dp_values,
            LAMBDA dp : QGt(score_dp_match_enhanced(dp.name, formula_clean,
                                                    formula_words),
                            Q(98, 100)))

\* the matches keep the order of dp_values
matching_dps(formula_clean, formula_words, dp_values) ==
  SelectSeq(dp_values,
            LAMBDA dp : QGe(score_dp_match_enhanced(dp.name, formula_clean,
                                                    formula_words),
                            Q(3, 10)))

find_matching_dps(formula, dp_values) ==
  matching_dps(clean_text(formula),
               words(str_lower(clean_text(formula))) \ StopWords, dp_values)

\* a sequence without its i-th element
Without(children, i) ==
  [j \in 1..(Len(children) - 1) |->
     IF j < i THEN children[j] ELSE children[j + 1]]

\* sorted(matched_dps.items(), key=lambda x: -len(x[0])): the sort is stable
longest(dps) ==
  CHOOSE k \in 1..Len(dps) :
    /\ \A j \in 1..Len(dps) : Len(dps[j].name) <= Len(dps[k].name)
    /\ \A j \in 1..(k - 1) : Len(dps[j].name) < Len(dps[k].name)

RECURSIVE sorted_dps(_)
sorted_dps(dps) ==
  IF dps = <<>> THEN <<>>
  ELSE <<dps[longest(dps)]>> \o sorted_dps(Without(dps, longest(dps)))

\* the three patterns of one abbreviation, in order; low is working.lower()
replace_abbrev(low, working, abbrev, value) ==
  IF In(<<"(">> \o abbrev \o <<")">>, low)
    THEN re_sub(low, working, <<"(">> \o abbrev \o <<")">>, FALSE,
                <<"(">> \o value \o <<")">>, 1)
  ELSE IF In(<<"[">> \o abbrev \o <<"]">>, low)
    THEN re_sub(low, working, <<"[">> \o abbrev \o <<"]">>, FALSE,
                <<"(">> \o value \o <<")">>, 1)
  ELSE re_sub(low, working, abbrev, TRUE, value, 1)

\* one iteration of the substitution loop: the first abbreviation from the
\* k-th on with a pattern that matches, else the base name
RECURSIVE replace_dp(_, _, _, _, _, _)
replace_dp(low, working, abbrevs, k, base_lower, value) ==
  IF k > Len(abbrevs)
    THEN IF In(base_lower, low)
           THEN re_sub(low, working, base_lower, FALSE, value, 1)
           ELSE working
  ELSE IF find_match(low, str_lower(abbrevs[k]), TRUE, 1) > 0
    THEN replace_abbrev(low, working, str_lower(abbrevs[k]), value)
  ELSE replace_dp(low, working, abbrevs, k + 1, base_lower, value)

\* the substitution loop from the k-th matched data point on
RECURSIVE substituted(_, _, _)
substituted(working, dps, k) ==
  IF k > Len(dps) THEN working
  ELSE substituted(replace_dp(str_lower(working), working,
                              abbreviations(dps[k].name, 1), 1,
                              str_lower(base_name(dps[k].name)),
                              str_float(dps[k].value)),
                   dps, k + 1)

\* re.sub of "(" inner ")" by '' from index i on: inner runs up to the first
\* character that is (member) or is not (~member) in chars, and holds word
RECURSIVE drop_parentheses(_, _, _, _, _, _)
drop_parentheses(low, s, i, chars, member, word) ==
  IF i > Len(s) THEN <<>>
  ELSE IF /\ s[i] = "("
          /\ span(s, i + 1, chars, member) <= Len(s)
          /\ s[span(s, i + 1, chars, member)] = ")"
          /\ In(word, SubSeq(low, i + 1, span(s, i + 1, chars, member) - 1))
    THEN drop_parentheses(low, s, span(s, i + 1, chars, member) + 1,
                          chars, member, word)
  ELSE <<s[i]>> \o drop_parentheses(low, s, i + 1, chars, member, word)

\* re.sub(r'\([^)]*stage[^)]*\)', '', working_formula, flags=re.IGNORECASE)
drop_parenthetical(s, word) ==
  drop_parentheses(str_lower(s), s, 1, {")"}, TRUE, word)

\* re.sub(r'([+\-*/])\s*([+\-*/])', r'\1', clean) from index i on
RECURSIVE collapse_operators(_, _)
collapse_operators(s, i) ==
  IF i > Len(s) THEN <<>>
  ELSE IF /\ s[i] \in Operators
          /\ span(s, i + 1, {" "}, FALSE) <= Len(s)
          /\ s[span(s, i + 1, {" "}, FALSE)] \in Operators
    THEN <<s[i]>> \o collapse_operators(s, span(s, i + 1, {" "}, FALSE) + 1)
  ELSE <<s[i]>> \o collapse_operators(s, i + 1)

\* re.sub(r'^[\d.]+\s+(?=[\d.])', '', clean); k is the end of the number
drop_leading_number(s, k) ==
  IF /\ k > 1
     /\ span(s, k, {" "}, FALSE) > k
     /\ span(s, k, {" "}, FALSE) <= Len(s)
     /\ s[span(s, k, {" "}, FALSE)] \in Digits \cup {"."}
    THEN SubSeq(s, span(s, k, {" "}, FALSE), Len(s))
    ELSE s

\* re.sub(r'[+\-*/]\s*$', '', clean)
drop_trailing_operator(s) ==
  IF RStrip(s) # <<>> /\ RStrip(s)[Len(RStrip(s))] \in Operators
    THEN SubSeq(RStrip(s), 1, Len(RStrip(s)) - 1)
    ELSE s

\* re.sub(r'\([^...]*\)', '', s): the parentheses around a run of chars
drop_runs(s, chars, member) == drop_parentheses(s, s, 1, chars, member, <<>>)

\* SmartCalculationEngine._clean_formula_for_eval: the first three
\* substitutions
clean_parentheses(formula) ==
  drop_runs(Strip(SelectSeq(drop_runs(formula, Digits \cup Operators \cup {")"}, TRUE),
                            LAMBDA c : c \in Digits \cup Operators
                                         \cup {"(", ")", ".", " "})),
            {" "}, FALSE)

\* and the last three
clean_formula_for_eval(formula) ==
  drop_trailing_operator(
    drop_leading_number(collapse_operators(clean_parentheses(formula), 1),
                        span(collapse_operators(clean_parentheses(formula), 1),
                             1, Digits \cup {"."}, FALSE)))

\* lines 340-384: the cleaned formula is evaluated with eval() and rated;
\* "except Exception" takes what eval(), float() and the classifier raise
rated_value(value, rating) ==
  IF rating \in Raised THEN ReviewResult("Calculation error")
  ELSE NumResult(value, rating, "quantitative")

evaluated(f, thresholds) ==
  IF f.ok THEN rated_value(f.v, apply_thresholds_smart(f.v, thresholds))
  ELSE ReviewResult("Calculation error")

\* eval_formula: the letters removed, the blanks collapsed
eval_formula(clean_formula) ==
  clean_text(SelectSeq(clean_formula,
                       LAMBDA c : c \notin WordChars \ (Digits \cup {"_"})))

\* "has_digit and has_operator" and "if eval_formula"
reaches_eval(clean_formula) ==
  /\ \E i \in 1..Len(clean_formula) : clean_formula[i] \in Digits
  /\ \E i \in 1..Len(clean_formula) : clean_formula[i] \in Operators
  /\ eval_formula(clean_formula) # <<>>

evaluate_clean(clean_formula, thresholds) ==
  IF reaches_eval(clean_formula)
    THEN evaluated(py_eval(eval_formula(clean_formula)), thresholds)
    ELSE ReviewResult("Invalid mathematical expression")

\* SmartCalculationEngine._calculate_fallback; has_issues is False
fallback_rated(rating) ==
  IF rating \in Raised THEN RaisedResult(rating)
  ELSE Result("num", Q(85, 100), "", rating, "quantitative", FALSE, "",
              "Used fallback calculation")

calculate_fallback(thresholds) ==
  fallback_rated(apply_thresholds_smart(Q(85, 100), thresholds))

\* the outer "except Exception" of calculate_quantitative_proper
processing_error(result) ==
  IF result.kind = "raise" THEN ReviewResult("Formula processing error")
  ELSE result

\* the formula with the values of the matched DPs in it, cleaned
clean_formula_of(matched_dps, formula) ==
  clean_formula_for_eval(
    substituted(drop_parenthetical(drop_parenthetical(formula, Chars("stage")),
                                   Chars("phase")),
                sorted_dps(matched_dps), 1))

quantitative_of(matched_dps, formula, thresholds) ==
  IF matched_dps = <<>> THEN processing_error(calculate_fallback(thresholds))
  ELSE evaluate_clean(clean_formula_of(matched_dps, formula), thresholds)

calculate_quantitative_proper(formula, dp_values, thresholds) ==
  quantitative_of(find_matching_dps(formula, dp_values), formula, thresholds)

descriptive_patterns ==
  {Chars("percentage similarity between"), Chars("matched approved"),
   Chars("support the look of"), Chars("adequate planning"),
   Chars("able to demonstrate"), Chars("adequately plan"),
   Chars("% of projects with"), Chars("% variance from"),
   Chars("% variance in"), Chars("% of approved deviation"),
   Chars("deviation waivers"), Chars("time critical")}
qualitative_indicators ==
  {Chars("satisfactory if"), Chars("satisfactory score if"), Chars("good if"),
   Chars("yes/no"), Chars("applied/not applied"), Chars("completion of"),
   Chars("implementation of")}

\* SmartCalculationEngine._determine_formula_type
determine_formula_type(formula, thresholds) ==
  IF formula = <<>> THEN "descriptive"
  ELSE IF \E p \in descriptive_patterns : In(p, str_lower(formula))
    THEN "descriptive"
  ELSE IF \E p \in qualitative_indicators : In(p, str_lower(formula))
    THEN "qualitative"
  ELSE IF \E v \in {thresholds.good, thresholds.satisfactory,
                    thresholds.needs_improvement} :
            \E p \in {Chars("yes"), Chars("no"), Chars("partial"),
                      Chars("inadequate")} : In(p, str_lower(v))
    THEN "qualitative"
  ELSE IF \E c \in Operators \cup {"(", ")"} : Contains(formula, c)
    THEN "quantitative"
  ELSE "descriptive"

\* SmartCalculationEngine.get_qualitative_options: the 'ratings' dict
DefaultRatings ==
  [c \in {"Yes", "Partially", "No"} |->
     IF c = "Yes" THEN "Good"
     ELSE IF c = "No" THEN "Needs Improvement" ELSE "Satisfactory"]

option_ratings(yes, partial, no) ==
  IF ~yes /\ ~partial /\ ~no THEN DefaultRatings
  ELSE [c \in (IF yes THEN {"Yes"} ELSE {})
                \cup (IF partial THEN {"Yes, but inadequate", "Partially Applied"}
                      ELSE {})
                \cup (IF no THEN {"No"} ELSE {}) |->
          IF c = "Yes" THEN "Good"
          ELSE IF c = "No" THEN "Needs Improvement" ELSE "Satisfactory"]

get_qualitative_options(thresholds) ==
  option_ratings(In(Chars("yes"), str_lower(thresholds.good)),
                 In(Chars("partial"), str_lower(thresholds.satisfactory))
                   \/ In(Chars("inadequate"), str_lower(thresholds.satisfactory)),
                 In(Chars("no"), str_lower(thresholds.needs_improvement)))

qualitative_choice(user_choice, ratings) ==
  TextResult(user_choice,
             IF user_choice \in DOMAIN ratings THEN ratings[user_choice] ELSE "N/A",
             "qualitative")

\* "if result['has_issues']": a result without issues keeps only value,
\* rating and type
quantitative_ac(result) ==
  IF result.needs_review THEN result
  ELSE NumResult(result.value, result.rating, "quantitative")

\* the branches of calculate_ac
ac_of_type(actual_type, ac_name, ac_data, formula, dp_values, qualitative_inputs) ==
  IF actual_type = "qualitative"
    THEN IF ac_name \in DOMAIN qualitative_inputs
           THEN qualitative_choice(qualitative_inputs[ac_name],
                                   get_qualitative_options(ac_data.thresholds))
           ELSE TextResult("User Input Required", "N/A", "qualitative")
  ELSE IF actual_type = "quantitative"
    THEN quantitative_ac(calculate_quantitative_proper(formula, dp_values,
                                                       ac_data.thresholds))
  ELSE TextResult("Manual Assessment Required", "N/A", "descriptive")

calculate_ac(db, ac_name, dp_values, qualitative_inputs) ==
  IF ac_name \notin DOMAIN db.assessment_criteria THEN ErrorResult("AC not found")
  ELSE ac_of_type(
         determine_formula_type(clean_text(db.assessment_criteria[ac_name].formula),
                                db.assessment_criteria[ac_name].thresholds),
         ac_name, db.assessment_criteria[ac_name],
         clean_text(db.assessment_criteria[ac_name].formula),
         dp_values, qualitative_inputs)

(***************************************************************************)
(* FormulaParser (formula_parser_complete.py).  variables is the dict of   *)
(* data-point values in insertion order, a sequence of [name, value]; the  *)
(* values are whole numbers held as floats.  evaluate returns a bare float *)
(* or a label: a Result whose status, rating and type are empty.           *)
(***************************************************************************)
\* str.replace(old, new) and str.split()
str_replace(s, old, new) == re_sub(s, s, old, FALSE, new, 1)
split(s) == SelectSeq(Split(s, " "), LAMBDA w : w # <<>>)
count(s, c) == Len(Split(s, c)) - 1

\* FormulaParser._is_qualitative
qual_keywords ==
  {Chars("compliance"), Chars("status"), Chars("applied"), Chars("completed"),
   Chars("implemented"), Chars("yes"), Chars("no"), Chars("partial"),
   Chars("assessment"), Chars("conducted"), Chars("approved"),
   Chars("documented"), Chars("established"), Chars("defined"),
   Chars("available"), Chars("if"), Chars("whether"), Chars("exists"),
   Chars("review"), Chars("robust"), Chars("alignment"),
   Chars("satisfactory score")}

qualitative_of(has_math, has_qual, formula_lower) ==
  IF has_math /\ ~has_qual THEN FALSE
  ELSE IF has_qual /\ ~has_math THEN TRUE
  ELSE has_qual /\ In(Chars("satisfactory score"), formula_lower)

is_qualitative(formula) ==
  qualitative_of(\E c \in Operators \cup {"(", ")"} : Contains(formula, c),
                 \E kw \in qual_keywords : In(kw, str_lower(formula)),
                 str_lower(formula))

\* re.findall(r'\(([^)]+)\)', formula) from index i on
RECURSIVE paren_matches(_, _)
paren_group(formula, open, close) ==
  IF close > Len(formula) THEN <<>>
  ELSE IF close = open + 1 THEN paren_matches(formula, close)
  ELSE <<SubSeq(formula, open + 1, close - 1)>> \o paren_matches(formula, close + 1)

paren_from(formula, open) ==
  IF open > Len(formula) THEN <<>>
  ELSE paren_group(formula, open, span(formula, open + 1, {")"}, TRUE))

paren_matches(formula, i) == paren_from(formula, span(formula, i, {"("}, TRUE))

common_vars ==
  <<Chars("Earned Value"), Chars("Planned Value"),
    Chars("Total number of projects"),
    Chars("Number of projects with approved change requests"),
    Chars("Total number of projects in design phase"),
    Chars("Total number of projects in construction phase"),
    Chars("Number of projects with forecast completion date"),
    Chars("milestones achieved on time"), Chars("planned milestones")>>

\* FormulaParser._extract_needed_variables
extract_needed_variables(formula) ==
  paren_matches(formula, 1) \o SelectSeq(common_vars, LAMBDA var : In(var, formula))

\* dp_name.replace('(No.)', '').replace('(%)', '').strip().lower()
dp_lower(dp_name) ==
  str_lower(Strip(str_replace(str_replace(dp_name, Chars("(No.)"), <<>>),
                              Chars("(%)"), <<>>)))

\* "Partial match scoring" and "Check word overlap"
partial_score(needed_lower, dp) ==
  IF In(needed_lower, dp) THEN Q(Len(needed_lower), Len(dp))
  ELSE IF In(dp, needed_lower) THEN Q(Len(dp), Len(needed_lower))
  ELSE QZero

word_overlap(needed_words, dp_words) ==
  IF needed_words \cap dp_words = {} THEN QZero
  ELSE Q(Cardinality(needed_words \cap dp_words),
         IF Cardinality(needed_words) >= Cardinality(dp_words)
           THEN Cardinality(needed_words) ELSE Cardinality(dp_words))

match_score(needed_lower, dp) ==
  QMax(partial_score(needed_lower, dp),
       word_overlap(Range(split(needed_lower)), Range(split(dp))))

\* "Exact match" and "Check if needed is an abbreviation": the loop breaks
breaks_at(needed, dp_name) ==
  \/ str_lower(needed) = dp_lower(dp_name)
  \/ /\ Len(needed) <= 3
     /\ \/ In(<<"(">> \o needed \o <<")">>, dp_name)
        \/ In(<<" ">> \o needed \o <<" ">>, dp_name)

\* the loop over available_dps from the i-th on: hit is the DP the loop
\* broke at, best the DP of best_match, 0 when there is none
RECURSIVE best_match(_, _, _, _, _)
best_match(needed, available_dps, i, best, best_score) ==
  IF i > Len(available_dps) THEN [hit |-> 0, best |-> best, score |-> best_score]
  ELSE IF breaks_at(needed, available_dps[i].name)
    THEN [hit |-> i, best |-> best, score |-> best_score]
  ELSE IF QGt(match_score(str_lower(needed), dp_lower(available_dps[i].name)),
              best_score)
    THEN best_match(needed, available_dps, i + 1, i,
                    match_score(str_lower(needed), dp_lower(available_dps[i].name)))
  ELSE best_match(needed, available_dps, i + 1, best, best_score)

\* "if best_match and best_score > 0.5" follows the loop, broken or not
mapped(loop) ==
  IF loop.best # 0 /\ QGt(loop.score, Q(1, 2)) THEN loop.best ELSE loop.hit

\* FormulaParser._map_formula_to_dps: the mapping in insertion order, a
\* sequence of [var, value]
RECURSIVE map_formula_to_dps(_, _, _, _)
map_entry(needed_vars, available_dps, k, mapping, dp) ==
  IF dp = 0 \/ \E j \in 1..Len(mapping) : mapping[j].var = needed_vars[k]
    THEN map_formula_to_dps(needed_vars, available_dps, k + 1, mapping)
    ELSE map_formula_to_dps(needed_vars, available_dps, k + 1,
                            Append(mapping, [var |-> needed_vars[k],
                                             value |-> available_dps[dp].value]))

map_formula_to_dps(needed_vars, available_dps, k, mapping) ==
  IF k > Len(needed_vars) THEN mapping
  ELSE map_entry(needed_vars, available_dps, k, mapping,
                 mapped(best_match(needed_vars[k], available_dps, 1, 0, QZero)))

\* "Step 3: Replace variables in formula with values"
RECURSIVE replaced(_, _, _)
replaced(formula, var_mapping, k) ==
  IF k > Len(var_mapping) THEN formula
  ELSE replaced(str_replace(formula, var_mapping[k].var,
                            str_float(var_mapping[k].value)),
                var_mapping, k + 1)

text_to_remove ==
  <<Chars("Number of"), Chars("No. of"), Chars("Total"), Chars("with"),
    Chars("since"), Chars("phase"), Chars("inception"), Chars("time"),
    Chars("impact"), Chars("more than"), Chars("less than"), Chars("month"),
    Chars("months"), Chars("in accordance"), Chars("approved"),
    Chars("latest"), Chars("projects"), Chars("milestones"),
    Chars("achieved"), Chars("planned"), Chars("beyond"), Chars("forecast"),
    Chars("completion"), Chars("date"), Chars("schedule")>>

\* the re.sub loop over text_to_remove from the k-th text on
RECURSIVE remove_texts(_, _)
remove_texts(cleaned, k) ==
  IF k > Len(text_to_remove) \/ cleaned = <<>> THEN cleaned
  ELSE remove_texts(re_sub(str_lower(cleaned), cleaned,
                           str_lower(text_to_remove[k]), TRUE, <<>>, 1),
                    k + 1)

\* _clean_for_eval up to "cleaned = cleaned.strip()"
cleaned_text(formula) ==
  clean_text(SelectSeq(remove_texts(formula, 1),
                       LAMBDA c : c \in Digits \cup Operators
                                         \cup {" ", "(", ")", "."}))

\* "Handle division by zero"
zero_denominator(parts) ==
  Len(parts) = 2 /\ float(parts[2]).ok /\ float(parts[2]).v = QZero

zero_guard(cleaned) ==
  IF zero_denominator(Split(cleaned, "/")) THEN <<"0">> ELSE cleaned

\* "Try simpler evaluation": the except branch of _safe_eval
part_or(part, default) == IF Strip(part) = <<>> THEN FloatOf(default) ELSE float(part)

simple_division(numerator, denominator) ==
  IF ~numerator.ok \/ ~denominator.ok \/ denominator.v = QZero THEN QZero
  ELSE QDiv(numerator.v, denominator.v)

simpler_evaluation(expression) ==
  IF count(expression, "/") = 1
    THEN simple_division(part_or(Split(expression, "/")[1], QZero),
                         part_or(Split(expression, "/")[2], QOne))
  ELSE IF float(expression).ok THEN float(expression).v
  ELSE QZero

\* FormulaParser._safe_eval
eval_or_simpler(expression, parsed) ==
  IF parsed.ok /\ ~parsed.err THEN parsed.v ELSE simpler_evaluation(expression)

safe_eval(expression) ==
  IF Strip(expression) = <<>> THEN QZero
  ELSE eval_or_simpler(expression, py_parse(expression, "eval_node"))

\* "Handle percentage conversion for ratios"
percentage(formula, result) ==
  IF /\ Contains(formula, "/")
     /\ QGt(result, QZero) /\ QLe(result, QOne)
     /\ \E x \in {Chars("%"), Chars("percent"), Chars("index"), Chars("rate")} :
          In(x, str_lower(formula))
    THEN QMul(result, QHundred)
    ELSE result

\* the formula after "Step 3", cleaned
parser_substituted(formula, variables) ==
  cleaned_text(replaced(formula,
                        map_formula_to_dps(extract_needed_variables(formula),
                                           variables, 1, <<>>),
                        1))

\* the text handed to _safe_eval
parser_expression(formula, variables) ==
  zero_guard(parser_substituted(formula, variables))

\* FormulaParser._evaluate_quantitative
parser_evaluate_quantitative(formula, variables) ==
  NumResult(percentage(formula, safe_eval(parser_expression(formula, variables))),
            "", "")

\* FormulaParser._evaluate_qualitative: no value is a str
parser_evaluate_qualitative(formula, variables) == TextResult("N/A", "", "")

\* FormulaParser.evaluate
parser_evaluate(formula, variables) ==
  IF Strip(formula) = <<>> THEN NumResult(QZero, "", "")
  ELSE IF is_qualitative(Strip(formula))
    THEN parser_evaluate_qualitative(Strip(formula), variables)
  ELSE parser_evaluate_quantitative(Strip(formula), variables)

(***************************************************************************)
(* FormulaEngine (main_ag_module.py).  data_points are the names of the    *)
(* database's data points in the order of the JSON object; dp_values is    *)
(* the dict passed in, a sequence of [name, value] with whole numbers held *)
(* as floats.  evaluate returns the pair (value, status).                  *)
(***************************************************************************)
EngineValue(value, status) == Result("num", value, "", "", "", FALSE, status, "")
EngineLabel(text, status) == Result("str", QZero, text, "", "", FALSE, status, "")
EngineNone(status) == Result("none", QZero, "", "", "", FALSE, status, "")

\* [w for w in s.split() if len(w) > 2]
long_words(s) == SelectSeq(split(s), LAMBDA w : Len(w) > 2)

\* dp_name.lower().replace(' (no.)', '').replace(' (%)', '')
dp_core(dp_name) ==
  str_replace(str_replace(str_lower(dp_name), Chars(" (no.)"), <<>>),
              Chars(" (%)"), <<>>)

\* "Count matching words" and "If 50% or more words match"
is_reference(dp_words, formula_words) ==
  /\ dp_words # <<>>
  /\ 2 * Cardinality({i \in 1..Len(dp_words) :
                        \E k \in 1..Len(formula_words) :
                          \/ In(dp_words[i], formula_words[k])
                          \/ In(formula_words[k], dp_words[i])})
       >= Len(dp_words)

\* FormulaEngine._extract_dp_references
extract_dp_references(data_points, formula) ==
  SelectSeq(data_points,
            LAMBDA dp_name : is_reference(long_words(Strip(dp_core(dp_name))),
                                          long_words(str_lower(formula))))

\* the value stored under a key of dp_values
stored_at(dp_values, dp_name) ==
  CHOOSE i \in 1..Len(dp_values) : dp_values[i].name = dp_name

\* the references that are keys of dp_values, with their values
stored_refs(dp_references, dp_values) ==
  [k \in 1..Len(dp_references) |->
     dp_values[stored_at(dp_values, dp_references[k])]]

\* the pattern \bw1.*?w2.*?...[^/]*? searched in formula_lower
\* the index after the earliest occurrences, in turn, of the k-th word on
\* at or after i; 0 when one of them does not occur
RECURSIVE chain_end(_, _, _, _)
chain_end(s, ws, k, i) ==
  IF k > Len(ws) THEN i
  ELSE IF find_match(s, ws[k], FALSE, i) = 0 THEN 0
  ELSE chain_end(s, ws, k + 1, find_match(s, ws[k], FALSE, i) + Len(ws[k]))

\* the first index at or after i where w starts behind a \b; 0 if none
RECURSIVE chain_start(_, _, _)
chain_start(s, w, i) ==
  IF i + Len(w) - 1 > Len(s) THEN 0
  ELSE IF SubSeq(s, i, i + Len(w) - 1) = w /\ boundary(s, i - 1) THEN i
  ELSE chain_start(s, w, i + 1)

\* working_formula[:start] + str(value) + working_formula[end:]
spliced(working_formula, start, end, value) ==
  IF start = 0 \/ end = 0 THEN working_formula
  ELSE SubSeq(working_formula, 1, start - 1) \o value
         \o SubSeq(working_formula, end, Len(working_formula))

replace_first(working_formula, ws, start, value) ==
  IF start = 0 THEN working_formula
  ELSE spliced(working_formula, start,
               chain_end(str_lower(working_formula), ws, 2, start + Len(ws[1])),
               value)

replace_reference(working_formula, ws, value) ==
  IF ws = <<>> THEN working_formula
  ELSE replace_first(working_formula, ws,
                     chain_start(str_lower(working_formula), ws[1], 1), value)

\* the loop over sorted_refs from the k-th on
RECURSIVE replace_references(_, _, _)
replace_references(working_formula, sorted_refs, k) ==
  IF k > Len(sorted_refs) THEN working_formula
  ELSE replace_references(
         replace_reference(working_formula, long_words(dp_core(sorted_refs[k].name)),
                           str_float(sorted_refs[k].value)),
         sorted_refs, k + 1)

\* round(result, 4)
round_half_even(floor, twice_rest, unit) ==
  IF twice_rest > unit \/ (twice_rest = unit /\ floor % 2 = 1) THEN floor + 1
  ELSE floor

round4(v) ==
  Q(round_half_even((v.n * 10000) \div v.d,
                    2 * ((v.n * 10000) % v.d), v.d),
    10000)

\* re.sub(r'[a-zA-Z]+', '', working_formula)
without_letters(working_formula) ==
  SelectSeq(working_formula, LAMBDA c : c \notin WordChars \ (Digits \cup {"_"}))

\* "result = eval(working_formula)" and what follows it
engine_result(parsed) ==
  IF parsed.ok /\ ~parsed.err THEN EngineValue(round4(parsed.v), "calculated")
  ELSE EngineNone("error")

engine_eval(working_formula) ==
  IF \E c \in Operators : Contains(working_formula, c)
    THEN engine_result(py_parse(working_formula, "eval"))
    ELSE EngineNone("error")

\* the references with "if dp_name in dp_values"
stored_references(dp_references, dp_values) ==
  stored_refs(SelectSeq(dp_references,
                        LAMBDA r : \E i \in 1..Len(dp_values) : dp_values[i].name = r),
              dp_values)

\* the text that eval() is given
engine_expression(formula, references) ==
  without_letters(replace_references(formula, sorted_dps(references), 1))

\* FormulaEngine._evaluate_quantitative; "import re" is a statement of the
\* loop body, so that without a stored reference the name re is unbound
\* in the try block and its except clause is taken
quantitative_stored(formula, references) ==
  IF references = <<>> THEN EngineNone("error")
  ELSE engine_eval(engine_expression(formula, references))

quantitative_refs(formula, dp_references, dp_values) ==
  IF dp_references = <<>> THEN EngineNone("error")
  ELSE quantitative_stored(formula, stored_references(dp_references, dp_values))

engine_evaluate_quantitative(data_points, formula, dp_values) ==
  quantitative_refs(formula, extract_dp_references(data_points, formula), dp_values)

\* difflib.SequenceMatcher(None, a, b).ratio(); neither string is long
\* enough for the junk heuristic
RECURSIVE common(_, _, _, _, _, _)
common(a, b, i, j, ahi, bhi) ==
  IF i > ahi \/ j > bhi \/ a[i] # b[j] THEN 0
  ELSE 1 + common(a, b, i + 1, j + 1, ahi, bhi)

\* find_longest_match: the longest block, the earliest in a and then in b;
\* best is the longest block found before a[i], b[j]
RECURSIVE longest_in_row(_, _, _, _, _, _, _)
longest_in_row(a, b, i, j, ahi, bhi, best) ==
  IF j > bhi THEN best
  ELSE IF common(a, b, i, j, ahi, bhi) > best.k
    THEN longest_in_row(a, b, i, j + 1, ahi, bhi,
                        [i |-> i, j |-> j, k |-> common(a, b, i, j, ahi, bhi)])
  ELSE longest_in_row(a, b, i, j + 1, ahi, bhi, best)

RECURSIVE longest_match(_, _, _, _, _, _, _)
longest_match(a, b, i, ahi, blo, bhi, best) ==
  IF i > ahi \/ best.k > ahi - i THEN best
  ELSE longest_match(a, b, i + 1, ahi, blo, bhi,
                     longest_in_row(a, b, i, blo, ahi, bhi, best))

\* get_matching_blocks: the total size of the blocks
RECURSIVE matching(_, _, _, _, _, _)
matching_around(a, b, alo, ahi, blo, bhi, block) ==
  IF block.k = 0 THEN 0
  ELSE block.k + matching(a, b, alo, block.i - 1, blo, block.j - 1)
         + matching(a, b, block.i + block.k, ahi, block.j + block.k, bhi)

matching(a, b, alo, ahi, blo, bhi) ==
  IF alo > ahi \/ blo > bhi THEN 0
  ELSE matching_around(a, b, alo, ahi, blo, bhi,
                       longest_match(a, b, alo, ahi, blo, bhi,
                                     [i |-> alo, j |-> blo, k |-> 0]))

ratio(a, b) ==
  IF Len(a) + Len(b) = 0 THEN QOne
  ELSE Q(2 * matching(a, b, 1, Len(a), 1, Len(b)), Len(a) + Len(b))

\* the first key of dp_values that satisfies a test, 0 when none does
first_key(dp_values, test(_)) ==
  IF \E i \in 1..Len(dp_values) : test(dp_values[i].name)
    THEN CHOOSE i \in 1..Len(dp_values) :
           /\ test(dp_values[i].name)
           /\ \A j \in 1..(i - 1) : ~test(dp_values[j].name)
    ELSE 0

\* "Try fuzzy matching with similarity threshold": the first key with the
\* best ratio of at least 0.8
most_similar(reference_lower, dp_values) ==
  IF \E i \in 1..Len(dp_values) :
       QGe(ratio(reference_lower, str_lower(dp_values[i].name)), Q(8, 10))
    THEN CHOOSE i \in 1..Len(dp_values) :
           /\ QGe(ratio(reference_lower, str_lower(dp_values[i].name)), Q(8, 10))
           /\ \A j \in 1..Len(dp_values) :
                \/ QLt(ratio(reference_lower, str_lower(dp_values[j].name)),
                       ratio(reference_lower, str_lower(dp_values[i].name)))
                \/ /\ j >= i
                   /\ ratio(reference_lower, str_lower(dp_values[j].name))
                        = ratio(reference_lower, str_lower(dp_values[i].name))
    ELSE 0

\* ''.join(word[0] for word in dp_name.split() if word[0].isupper())
initials(dp_name) ==
  [k \in 1..Len(SelectSeq(split(dp_name), LAMBDA w : w[1] \in UpperCase)) |->
     SelectSeq(split(dp_name), LAMBDA w : w[1] \in UpperCase)[k][1]]

\* FormulaEngine._fuzzy_match_dp: the key matched, 0 for (None, None)
first_of(exact, substring, similar, abbreviation) ==
  IF exact # 0 THEN exact
  ELSE IF substring # 0 THEN substring
  ELSE IF similar # 0 THEN similar
  ELSE abbreviation

fuzzy_match_dp(reference_lower, dp_values) ==
  first_of(first_key(dp_values, LAMBDA n : str_lower(n) = reference_lower),
           first_key(dp_values, LAMBDA n : \/ In(reference_lower, str_lower(n))
                                           \/ In(str_lower(n), reference_lower)),
           most_similar(reference_lower, dp_values),
           first_key(dp_values, LAMBDA n : str_lower(initials(n)) = reference_lower))

\* FormulaEngine._evaluate_conditional: "if any(dp_values.values())"
evaluate_conditional(dp_values) ==
  IF \E i \in 1..Len(dp_values) : dp_values[i].value # QZero
    THEN EngineLabel("Yes", "calculated")
    ELSE EngineLabel("No", "calculated")

\* "Binary evaluation" of str(value).lower()
binary_evaluation(text) ==
  IF text \in {Chars("yes"), Chars("true"), Chars("1"), Chars("completed"),
               Chars("done")}
    THEN EngineLabel("Yes", "calculated")
  ELSE IF text \in {Chars("no"), Chars("false"), Chars("0"),
                    Chars("not completed"), Chars("pending")}
    THEN EngineLabel("No", "calculated")
  ELSE EngineLabel("Partially Applied", "calculated")

is_conditional(formula_lower) ==
  In(Chars("yes"), formula_lower) /\ In(Chars("no"), formula_lower)

qualitative_value(formula_lower, dp_values, matched) ==
  IF matched = 0 THEN EngineNone("incomplete")
  ELSE IF is_conditional(formula_lower)
    THEN binary_evaluation(str_lower(str_float(dp_values[matched].value)))
  ELSE EngineValue(dp_values[matched].value, "calculated")

qualitative_refs(formula_lower, dp_references, dp_values) ==
  IF dp_references = <<>>
    THEN IF is_conditional(formula_lower) THEN evaluate_conditional(dp_values)
         ELSE EngineNone("error")
  ELSE qualitative_value(formula_lower, dp_values,
                         fuzzy_match_dp(Strip(str_lower(dp_references[1])),
                                        dp_values))

\* FormulaEngine._evaluate_qualitative
engine_evaluate_qualitative(data_points, formula, dp_values) ==
  qualitative_refs(str_lower(formula), extract_dp_references(data_points, formula),
                   dp_values)

\* FormulaEngine.evaluate
engine_evaluate(data_points, formula, dp_values, formula_type) ==
  IF formula = <<>> THEN EngineNone("error")
  ELSE IF formula_type = "qualitative"
    THEN engine_evaluate_qualitative(data_points, formula, dp_values)
  ELSE engine_evaluate_quantitative(data_points, formula, dp_values)

(***************************************************************************)
(* The other rating routines.  Here a thresholds dict says how it holds    *)
(* its keys: kind "absent" is the empty dict {}, kind "none" the dict      *)
(* whose three keys hold None (what the Excel import stores for a row      *)
(* without thresholds), kind "text" the dict whose three keys hold the     *)
(* strings good, satisfactory and needs_improvement.                       *)
(***************************************************************************)
Thresholds(kind, good, satisfactory, needs_improvement) ==
  [kind |-> kind, good |-> good, satisfactory |-> satisfactory,
   needs_improvement |-> needs_improvement]

\* str(thresholds.get(key, default))
str_get(thresholds, key, default) ==
  IF thresholds.kind = "absent" THEN default
  ELSE IF thresholds.kind = "none" THEN Chars("None")
  ELSE thresholds[key]

\* the dict as _apply_thresholds_smart reads it: '' for what it lacks
texts_of(thresholds) ==
  [good |-> thresholds.good, satisfactory |-> thresholds.satisfactory,
   needs_improvement |-> thresholds.needs_improvement]

\* "val / 100 if val > 1": each bound is divided on its own
over_one_scaled(f) == IF QGt(f.v, QOne) THEN QDiv(f.v, QHundred) ELSE f.v

\* AdvancedMeinhardt._calculate_rating_from_db, the nested check_threshold
dashboard_compare(op, f, value) ==
  /\ f.ok
  /\ CASE op = ">=" -> QGe(value, over_one_scaled(f))
       [] op = ">" -> QGt(value, over_one_scaled(f))
       [] op = "<=" -> QLe(value, over_one_scaled(f))
       [] op = "<" -> QLt(value, over_one_scaled(f))

dashboard_range(parts, value) ==
  /\ Len(parts) = 2
  /\ float(parts[1]).ok
  /\ float(parts[2]).ok
  /\ QLe(over_one_scaled(float(parts[1])), value)
  /\ QLe(value, over_one_scaled(float(parts[2])))

dashboard_check(t, value) ==
  IF StartsWith(t, <<">", "=">>) THEN dashboard_compare(">=", float(Drop(t, 2)), value)
  ELSE IF StartsWith(t, <<">">>) THEN dashboard_compare(">", float(Drop(t, 1)), value)
  ELSE IF StartsWith(t, <<"<", "=">>) THEN dashboard_compare("<=", float(Drop(t, 2)), value)
  ELSE IF StartsWith(t, <<"<">>) THEN dashboard_compare("<", float(Drop(t, 1)), value)
  ELSE Contains(t, "-") /\ dashboard_range(Split(t, "-"), value)

dashboard_check_threshold(threshold_str, value) ==
  threshold_str # <<>> /\ dashboard_check(Remove(Strip(threshold_str), "%"), value)

calculate_rating_from_db(value, thresholds) ==
  IF no_thresholds(texts_of(thresholds)) THEN default_band(value)
  ELSE IF dashboard_check_threshold(str_get(thresholds, "good", <<>>), value)
    THEN "Good"
  ELSE IF dashboard_check_threshold(str_get(thresholds, "satisfactory", <<>>), value)
    THEN "Satisfactory"
  ELSE IF dashboard_check_threshold(str_get(thresholds, "needs_improvement", <<>>), value)
    THEN "Needs Improvement"
  ELSE default_band(value)

\* SmartFormulaCalculator._get_rating (smart_formula_calculator_final.py),
\* percent scale.  The nested parse_threshold: None when float() raises
calculator_parsed(f) ==
  IF ~f.ok THEN FloatError
  ELSE IF QLe(f.v, QOne) THEN f
  ELSE FloatOf(QDiv(f.v, QHundred))

calculator_parse_threshold(thresh) ==
  calculator_parsed(float(Remove(Remove(Remove(thresh, "%"), ">"), "<")))

\* "if good_val and ...": None and 0.0 are false
truthy(f) == f.ok /\ f.v # QZero

\* "Check good"
calculator_good(score_ratio, good) ==
  /\ Contains(good, ">")
  /\ truthy(calculator_parse_threshold(good))
  /\ QGt(score_ratio, calculator_parse_threshold(good).v)

\* "Check satisfactory"
calculator_between(score_ratio, sat_min, sat_max) ==
  /\ truthy(sat_min) /\ truthy(sat_max)
  /\ QLe(sat_min.v, score_ratio) /\ QLe(score_ratio, sat_max.v)

calculator_parts(score_ratio, parts) ==
  /\ Len(parts) = 2
  /\ calculator_between(score_ratio, calculator_parse_threshold(parts[1]),
                        calculator_parse_threshold(parts[2]))

calculator_satisfactory(score_ratio, satisfactory) ==
  /\ Contains(satisfactory, "-")
  /\ calculator_parts(score_ratio, Split(Remove(satisfactory, "%"), "-"))

\* "Default logic", which is also WeightedAggregator._get_rating and the
\* default of FormulaParser.get_rating_for_ac
band_85_70(value) ==
  IF QGe(value, QInt(85)) THEN "Good"
  ELSE IF QGe(value, QInt(70)) THEN "Satisfactory"
  ELSE "Needs Improvement"

calculator_qualitative(value) ==
  IF QGe(value, QInt(80)) THEN "Good"
  ELSE IF QGe(value, QInt(50)) THEN "Satisfactory"
  ELSE "Needs Improvement"

SmartFormulaCalculator_get_rating(value, thresholds, formula_type) ==
  IF formula_type = "qualitative" THEN calculator_qualitative(value)
  ELSE IF calculator_good(QDiv(value, QHundred),
                          str_get(thresholds, "good", Chars(">90")))
    THEN "Good"
  ELSE IF calculator_satisfactory(QDiv(value, QHundred),
                                  str_get(thresholds, "satisfactory", Chars("70-90")))
    THEN "Satisfactory"
  ELSE band_85_70(value)

\* re.findall(r'[\d.]+', s) from index i on
RECURSIVE number_runs(_, _)
number_run(s, start, end) ==
  IF start > Len(s) THEN <<>>
  ELSE <<SubSeq(s, start, end - 1)>> \o number_runs(s, end)

number_runs(s, i) ==
  number_run(s, span(s, i, Digits \cup {"."}, TRUE),
             span(s, span(s, i, Digits \cup {"."}, TRUE), Digits \cup {"."}, FALSE))

\* FormulaParser.get_rating_for_ac, the try block: "Good", "Satisfactory",
\* "Needs Improvement", or "except" when an exception leaves it
parser_good(value, good, runs) ==
  IF ~Contains(good, ">") THEN "no"
  ELSE IF runs = <<>> \/ ~float(runs[1]).ok THEN "except"
  ELSE IF QGt(value, float(runs[1]).v) THEN "Good"
  ELSE "no"

parser_satisfactory(value, satisfactory, parts) ==
  IF ~Contains(satisfactory, "-") \/ Len(parts) # 2 THEN "Needs Improvement"
  ELSE IF ~float(parts[1]).ok THEN "except"
  ELSE IF ~QLe(float(parts[1]).v, value) THEN "Needs Improvement"
  ELSE IF ~float(parts[2]).ok THEN "except"
  ELSE IF QLe(value, float(parts[2]).v) THEN "Satisfactory"
  ELSE "Needs Improvement"

parser_try(value, good, satisfactory, from_good) ==
  IF from_good # "no" THEN from_good
  ELSE IF satisfactory = <<>> THEN "Needs Improvement"
  ELSE parser_satisfactory(value, satisfactory, number_runs(satisfactory, 1))

parser_rated(tried, value) == IF tried = "except" THEN band_85_70(value) ELSE tried

parser_qualitative(value) ==
  IF QGe(value, QHundred) THEN "Good"
  ELSE IF QGe(value, QInt(50)) THEN "Satisfactory"
  ELSE "Needs Improvement"

\* thresholds is the thresholds dict that self.database holds for ac_name
get_rating_for_ac(thresholds, value, qualitative) ==
  IF qualitative THEN parser_qualitative(value)
  ELSE IF thresholds.kind = "absent" THEN band_85_70(value)
  ELSE IF thresholds.kind = "none" THEN "Needs Improvement"
  ELSE parser_rated(parser_try(value, thresholds.good, thresholds.satisfactory,
                               parser_good(value, thresholds.good,
                                           number_runs(thresholds.good, 1))),
                    value)

\* MainAGModule._get_ac_rating for a numeric value, the quantitative branch:
\* float(thresholds.get('good', 90)) and float(thresholds.get('satisfactory', 70))
ac_threshold(thresholds, key, default) ==
  IF thresholds.kind = "absent" THEN FloatOf(QInt(default))
  ELSE IF thresholds.kind = "none" THEN FloatError
  ELSE float(thresholds[key])

ac_rated(value_float, good_threshold, sat_threshold) ==
  IF ~good_threshold.ok \/ ~sat_threshold.ok THEN "N/A"
  ELSE IF QGe(value_float, good_threshold.v) THEN "Good"
  ELSE IF QGe(value_float, sat_threshold.v) THEN "Satisfactory"
  ELSE "Needs Improvement"

get_ac_rating(value, thresholds, formula_type) ==
  IF formula_type = "qualitative" THEN "N/A"
  ELSE ac_rated(value, ac_threshold(thresholds, "good", 90),
                ac_threshold(thresholds, "satisfactory", 70))

\* analyze_ag_rebuilt.check_threshold; t is the string stripped, "%" removed
analyze_range(parts, score) ==
  /\ Len(parts) = 2
  /\ float(parts[1]).ok /\ float(parts[2]).ok
  /\ QLe(float(parts[1]).v, score) /\ QLe(score, float(parts[2]).v)

analyze_compare(op, f, score) ==
  /\ f.ok
  /\ CASE op = ">=" -> QGe(score, f.v)
       [] op = ">" -> QGt(score, f.v)
       [] op = "<=" -> QLe(score, f.v)
       [] op = "<" -> QLt(score, f.v)
       [] op = "=" -> score = f.v

analyze_check(t, score) ==
  IF Contains(t, "-") THEN analyze_range(Split(t, "-"), score)
  ELSE IF StartsWith(t, <<">", "=">>) THEN analyze_compare(">=", float(Drop(t, 2)), score)
  ELSE IF StartsWith(t, <<">">>) THEN analyze_compare(">", float(Drop(t, 1)), score)
  ELSE IF StartsWith(t, <<"<", "=">>) THEN analyze_compare("<=", float(Drop(t, 2)), score)
  ELSE IF StartsWith(t, <<"<">>) THEN analyze_compare("<", float(Drop(t, 1)), score)
  ELSE IF StartsWith(t, <<"=">>) THEN analyze_compare("=", float(Drop(t, 1)), score)
  ELSE analyze_compare(">=", float(t), score)

\* a column the row lacks reads as None, for which pd.isna is true
check_threshold(score, thresholds, key) ==
  /\ thresholds.kind = "text"
  /\ Strip(thresholds[key]) # <<>>
  /\ analyze_check(Remove(Strip(thresholds[key]), "%"), score)

\* analyze_ag_rebuilt.render, "Step 4: Assign a rating based on thresholds"
analyze_rating(score, thresholds) ==
  IF check_threshold(score, thresholds, "good") THEN "Good"
  ELSE IF check_threshold(score, thresholds, "satisfactory") THEN "Satisfactory"
  ELSE IF check_threshold(score, thresholds, "needs_improvement")
    THEN "Needs Improvement"
  ELSE "Undefined"


(***************************************************************************)
(* Python floats.  The value and the weight of a child are floats and the  *)
(* aggregators add and divide them in binary64, where every operation      *)
(* rounds its exact result to 53 significant bits, ties to even.  A        *)
(* natural number of any size is the sequence of its binary digits, most   *)
(* significant first; a float is zero or m * 2^e with m of 53 digits.  The *)
(* values of this model are non-negative and far from the ends of the      *)
(* exponent range.                                                         *)
(***************************************************************************)
Mantissa == 53

RECURSIVE BitsOf(_)
BitsOf(n) == IF n = 0 THEN <<>> ELSE Append(BitsOf(n \div 2), n % 2)

BStrip(b) ==
  LET ones == {i \in 1..Len(b) : b[i] = 1}
  IN  IF ones = {} THEN <<>>
      ELSE SubSeq(b, CHOOSE i \in ones : \A j \in ones : i <= j, Len(b))

\* digit i of b, digit 0 the least significant
BitAt(b, i) == IF i < Len(b) THEN b[Len(b) - i] ELSE 0

LongerLen(a, b) == IF Len(a) >= Len(b) THEN Len(a) ELSE Len(b)

\* e, once v is evaluated: the passes of a loop run in order
After(v, e) == IF v = v THEN e ELSE e

\* the state after the passes from..to of a loop that starts in state acc
RECURSIVE Loop(_, _, _, _)
Loop(Pass(_, _), acc, from, to) ==
  After(acc,
        IF from > to THEN acc
        ELSE IF from = to THEN Pass(acc, from)
        ELSE LET mid == (from + to) \div 2
             IN  Loop(Pass, Loop(Pass, acc, from, mid), mid + 1, to))

AddPass(a, b, acc, i) ==
  LET t == BitAt(a, i) + BitAt(b, i) + acc.carry
  IN  [carry |-> t \div 2, digits |-> <<t % 2>> \o acc.digits]

BAdd(a, b) ==
  BStrip(Loop(LAMBDA acc, i : AddPass(a, b, acc, i),
             [carry |-> 0, digits |-> <<>>], 0, LongerLen(a, b)).digits)

SubPass(a, b, acc, i) ==
  LET t == BitAt(a, i) - BitAt(b, i) - acc.borrow
  IN  [borrow |-> IF t < 0 THEN 1 ELSE 0,
       digits |-> <<(t + 2) % 2>> \o acc.digits]

\* a - b, for a >= b
BSub(a, b) ==
  BStrip(Loop(LAMBDA acc, i : SubPass(a, b, acc, i),
             [borrow |-> 0, digits |-> <<>>], 0, Len(a) - 1).digits)

\* a <= b, for numbers without leading zeros
BLe(a, b) ==
  IF Len(a) # Len(b) THEN Len(a) < Len(b)
  ELSE LET differ == {i \in 1..Len(a) : a[i] # b[i]}
       IN  \/ differ = {}
           \/ a[CHOOSE i \in differ : \A j \in differ : i <= j] = 0

BShl(a, k) == IF a = <<>> THEN <<>> ELSE a \o [i \in 1..k |-> 0]

BMul(a, b) ==
  Loop(LAMBDA acc, i : BAdd(BShl(acc, 1), IF b[i] = 1 THEN a ELSE <<>>),
       <<>>, 1, Len(b))

DivPass(a, d, acc, i) ==
  LET r == BStrip(Append(acc.r, a[i]))
  IN  IF BLe(d, r) THEN [q |-> Append(acc.q, 1), r |-> BSub(r, d)]
      ELSE [q |-> Append(acc.q, 0), r |-> r]

\* quotient and remainder of a by d, d > 0
BDivMod(a, d) ==
  LET qr == Loop(LAMBDA acc, i : DivPass(a, d, acc, i),
                 [q |-> <<>>, r |-> <<>>], 1, Len(a))
  IN  [q |-> BStrip(qr.q), r |-> qr.r]

FZero == [m |-> <<>>, e |-> 0]

\* the float nearest to (n + f) * 2^e, where 0 <= f < 1 and inexact says
\* that f > 0; ties go to the even mantissa
RoundToFloat(n, e, inexact) ==
  IF n = <<>> THEN FZero
  ELSE IF Len(n) <= Mantissa
    THEN [m |-> BShl(n, Mantissa - Len(n)), e |-> e - (Mantissa - Len(n))]
  ELSE LET k == Len(n) - Mantissa
           top == SubSeq(n, 1, Mantissa)
           below == inexact \/ \E i \in Mantissa + 2..Len(n) : n[i] = 1
           up == n[Mantissa + 1] = 1 /\ (below \/ top[Mantissa] = 1)
           raised == BAdd(top, <<1>>)
       IN  IF ~up THEN [m |-> top, e |-> e + k]
           ELSE IF Len(raised) > Mantissa
             THEN [m |-> SubSeq(raised, 1, Mantissa), e |-> e + k + 1]
           ELSE [m |-> raised, e |-> e + k]

\* float(n) of an int
FInt(n) == RoundToFloat(BitsOf(n), 0, FALSE)

LowerExp(x, y) ==
  IF x.m = <<>> THEN y.e ELSE IF y.m = <<>> THEN x.e
  ELSE IF x.e <= y.e THEN x.e ELSE y.e

\* the mantissa of x on the exponent e <= x.e
Aligned(x, e) == IF x.m = <<>> THEN <<>> ELSE BShl(x.m, x.e - e)

FAdd(x, y) ==
  LET e == LowerExp(x, y)
  IN  RoundToFloat(BAdd(Aligned(x, e), Aligned(y, e)), e, FALSE)

FMul(x, y) ==
  IF x.m = <<>> \/ y.m = <<>> THEN FZero
  ELSE RoundToFloat(BMul(x.m, y.m), x.e + y.e, FALSE)

\* x / y, for y > 0
FDiv(x, y) ==
  IF x.m = <<>> THEN FZero
  ELSE LET qr == BDivMod(BShl(x.m, Mantissa + 2), y.m)
       IN  RoundToFloat(qr.q, x.e - (Mantissa + 2) - y.e, qr.r # <<>>)

FLe(x, y) ==
  LET e == LowerExp(x, y) IN BLe(Aligned(x, e), Aligned(y, e))

FGe(x, y) == FLe(y, x)
FGt(x, y) == ~FLe(x, y)
FMin(x, y) == IF FLe(x, y) THEN x ELSE y

\* the float of the decimal literal of n / d
FRatio(n, d) == FDiv(FInt(n), FInt(d))

(***************************************************************************)
(* The aggregation loops in binary64.  A child is the weight of its        *)
(* definition, an int, and the float its result dict holds as 'value'.     *)
(***************************************************************************)
FHundred == FInt(100)

FloatChild(weight, value) == [weight |-> weight, value |-> value]

FloatResult(value, rating) == [value |-> value, rating |-> rating]

\* WeightedAggregator._get_rating on a float
float_get_rating(value) ==
  IF FGe(value, FInt(85)) THEN "Good"
  ELSE IF FGe(value, FInt(70)) THEN "Satisfactory"
  ELSE "Needs Improvement"

\* one pass of the loop of WeightedAggregator.aggregate_to_ps
weighted_pass(children, acc, i) ==
  LET ac_weight == children[i].weight
      ac_value == FMin(children[i].value, FHundred)
      share == FDiv(FInt(ac_weight), FHundred)
  IN  IF ac_weight > 0
        THEN [weighted_sum |-> FAdd(acc.weighted_sum, FMul(ac_value, share)),
              total_weight |-> FAdd(acc.total_weight, share)]
        ELSE acc

\* sum(values)
float_sum(children) ==
  Loop(LAMBDA acc, i : FAdd(acc, children[i].value), FZero, 1, Len(children))

WeightedAggregator_aggregate_to_ps_binary64(children) ==
  LET sums == Loop(LAMBDA acc, i : weighted_pass(children, acc, i),
                   [weighted_sum |-> FZero, total_weight |-> FZero],
                   1, Len(children))
      ps_value ==
        IF FGt(sums.total_weight, FZero)
          THEN FDiv(sums.weighted_sum, sums.total_weight)
        ELSE IF Len(children) > 0
          THEN FDiv(float_sum(children), FInt(Len(children)))
        ELSE FZero
      capped == FMin(ps_value, FHundred)
  IN  FloatResult(capped, float_get_rating(capped))

\* the default band of _apply_thresholds_smart on a float
float_default_band(value) ==
  IF FGe(value, FRatio(9, 10)) THEN "Good"
  ELSE IF FGe(value, FRatio(7, 10)) THEN "Satisfactory"
  ELSE "Needs Improvement"

\* one pass of the loop of SmartCalculationEngine.aggregate_to_ps over a
\* quantitative result
smart_pass(children, acc, i) ==
  LET weight == IF children[i].weight = 0 THEN FInt(1)
                ELSE FInt(children[i].weight)
      value == children[i].value
  IN  IF FGt(value, FZero)
        THEN [weighted_sum |-> FAdd(acc.weighted_sum, FMul(value, weight)),
              total_weight |-> FAdd(acc.total_weight, weight)]
        ELSE acc

\* with the default thresholds {} on the parent
aggregate_to_ps_binary64(children) ==
  LET sums == Loop(LAMBDA acc, i : smart_pass(children, acc, i),
                   [weighted_sum |-> FZero, total_weight |-> FZero],
                   1, Len(children))
  IN  IF FGt(sums.total_weight, FZero)
        THEN LET ps_value == FDiv(sums.weighted_sum, sums.total_weight)
             IN  FloatResult(ps_value, float_default_band(ps_value))
        ELSE FloatResult(FZero, "N/A")

(***************************************************************************)
(* State.                                                                  *)
(***************************************************************************)
VARIABLES
  rt_value,       \* classifier: the value passed in
  rt_thresholds,  \* classifier: the three threshold expressions passed in
  rt_rating,      \* classifier: what _apply_thresholds_smart returned
  rt_shown,       \* classifier: what get_rating_for_value returned
  ag_call,        \* aggregator: which implementation and level is called
  ag_children,    \* aggregator: the parent's children, weight and result
  ag_thresholds,  \* aggregator: the parent's own threshold expressions
  ag_done,        \* aggregator: the call has returned
  ag_out,         \* aggregator: what it returned
  db,             \* session: the loaded database
  dp_values,      \* session_state.dp_values, in insertion order
  qualitative_inputs,  \* session_state.qualitative_inputs
  ac_results,     \* session_state.ac_results
  ps_results,     \* session_state.ps_results
  kt_results,     \* session_state.kt_results
  formula_issues, \* session_state.formula_issues
  uncaught,       \* the exception that left the last handler, "" if none
  ev_formula,     \* evaluators: the formula text passed in
  ev_values,      \* evaluators: the data-point values passed in
  ev_type,        \* evaluators: the formula type passed in
  ev_call,        \* evaluators: which evaluator was called, "" before
  ev_out,         \* evaluators: what it returned
  ev_expr,        \* evaluators: the text it gave to eval() or ast.parse()
  rc_call,        \* rating routines: which routine is called
  rc_value,       \* rating routines: the value passed in
  rc_thresholds,  \* rating routines: the thresholds dict passed in
  rc_type,        \* rating routines: the formula type passed in
  rc_out,         \* rating routines: the rating returned, "pending" before
  fl_call,        \* binary64: which aggregator is called
  fl_children,    \* binary64: the parent's children, weight and float value
  fl_out,         \* binary64: what it returned, rating "pending" before
  fn_call,        \* helpers: which function is called, "" before the call
  fn_input,       \* helpers: the arguments passed in
  fn_out,         \* helpers: what it returned
  ma_file,        \* MainAG: the content of data/meinhardt_db.json
  ma_current,     \* MainAG: session_state.current_assessment, "" for None
  ma_values,      \* MainAG: session_state.dp_values
  ma_results,     \* MainAG: session_state.calculation_results
  auto_calculate, \* MainAG: session_state.auto_calculate
  ma_call,        \* MainAG: the handler that ran last, "" before any
  formula_overrides,  \* session_state.formula_overrides
  ac_categories   \* session_state.ac_categories, <<>> while the key is absent

rt_vars == <<rt_value, rt_thresholds, rt_rating, rt_shown>>
ag_vars == <<ag_call, ag_children, ag_thresholds, ag_done, ag_out>>
ss_vars == <<db, dp_values, qualitative_inputs, ac_results, ps_results,
             kt_results, formula_issues, uncaught>>
ev_vars == <<ev_formula, ev_values, ev_type, ev_call, ev_out, ev_expr>>
rc_vars == <<rc_call, rc_value, rc_thresholds, rc_type, rc_out>>
fl_vars == <<fl_call, fl_children, fl_out>>
fn_vars == <<fn_call, fn_input, fn_out>>
ma_vars == <<ma_file, ma_current, ma_values, ma_results, auto_calculate,
             ma_call>>
ex_vars == <<formula_overrides, ac_categories>>
vars == <<rt_vars, ag_vars, ss_vars, ev_vars, rc_vars, fl_vars, fn_vars,
          ma_vars, ex_vars>>

\* the variables of the parts a specification does not exercise
NoThresholds == [good |-> <<>>, satisfactory |-> <<>>, needs_improvement |-> <<>>]

RatingIdle ==
  /\ rt_value = QZero
  /\ rt_thresholds = NoThresholds
  /\ rt_rating = "pending"
  /\ rt_shown = "pending"

AggIdle ==
  /\ ag_call = [impl |-> "none", level |-> "none"]
  /\ ag_children = <<>>
  /\ ag_thresholds = NoThresholds
  /\ ag_done = FALSE
  /\ ag_out = NoResult

SessionIdle ==
  /\ db = <<>>
  /\ dp_values = <<>>
  /\ qualitative_inputs = <<>>
  /\ ac_results = <<>>
  /\ ps_results = <<>>
  /\ kt_results = <<>>
  /\ formula_issues = <<>>
  /\ uncaught = ""

\* the text an evaluator gave to eval() or ast.parse(), if it came to that
Reached(text) == [reached |-> TRUE, text |-> text]
NotReached == [reached |-> FALSE, text |-> <<>>]

EvalIdle ==
  /\ ev_formula = <<>>
  /\ ev_values = <<>>
  /\ ev_type = ""
  /\ ev_call = ""
  /\ ev_out = NoResult
  /\ ev_expr = NotReached

RoutineIdle ==
  /\ rc_call = ""
  /\ rc_value = QZero
  /\ rc_thresholds = Thresholds("absent", <<>>, <<>>, <<>>)
  /\ rc_type = ""
  /\ rc_out = "pending"

FloatIdle ==
  /\ fl_call = ""
  /\ fl_children = <<>>
  /\ fl_out = FloatResult(FZero, "")

FnIdle ==
  /\ fn_call = ""
  /\ fn_input = <<>>
  /\ fn_out = <<>>

MainAGIdle ==
  /\ ma_file = <<>>
  /\ ma_current = ""
  /\ ma_values = <<>>
  /\ ma_results = <<>>
  /\ auto_calculate = FALSE
  /\ ma_call = ""

ExtrasIdle ==
  /\ formula_overrides = <<>>
  /\ ac_categories = <<>>

(***************************************************************************)
(* SpecRating: the rating classifier applied to every value and threshold  *)
(* triple of a pool.  A pool entry carries the text handed to the code     *)
(* and, for the statements about it, the form it was written in.           *)
(***************************************************************************)
Expr(text, form, lo, hi, pct) ==
  [text |-> text, form |-> form, lo |-> lo, hi |-> hi, pct |-> pct]

ThresholdPool ==
  { Expr(<<>>, "empty", QZero, QZero, FALSE),
    Expr(<<">", "0", ".", "9", "5">>, "gt", Q(95, 100), Q(95, 100), FALSE),
    Expr(<<">", "=", "0", ".", "9">>, "ge", Q(9, 10), Q(9, 10), FALSE),
    Expr(<<"0", ".", "8", "5", "-", "0", ".", "9", "5">>, "range",
         Q(85, 100), Q(95, 100), FALSE),
    Expr(<<"<", "0", ".", "8", "5">>, "lt", Q(85, 100), Q(85, 100), FALSE),
    Expr(<<"<", "=", "0", ".", "7">>, "le", Q(7, 10), Q(7, 10), FALSE),
    Expr(<<"=", "0", ".", "5">>, "eq", Q(1, 2), Q(1, 2), FALSE),
    Expr(<<"0", ".", "5">>, "bare", Q(1, 2), Q(1, 2), FALSE),
    Expr(<<">", "9", "0", "%">>, "gt", QInt(90), QInt(90), TRUE),
    Expr(<<"<", "1", "%">>, "lt", QOne, QOne, TRUE),
    Expr(<<"7", "0", "-", "9", "0", "%">>, "range", QInt(70), QInt(90), TRUE),
    Expr(<<">", "-", "0", ".", "5">>, "gt", Q(-1, 2), Q(-1, 2), FALSE),
    Expr(<<"-", "1", "-", "1">>, "range", QInt(-1), QOne, FALSE),
    Expr(<<">", "a", "b", "c">>, "malformed", QZero, QZero, FALSE),
    Expr(<<"1", "-", "2", "-", "3">>, "malformed", QZero, QZero, FALSE),
    Expr(<<"a", "b", "c">>, "malformed", QZero, QZero, FALSE) }

RatingValues ==
  { Q(-1, 2), QZero, Q(3, 10), Q(1, 2), Q(85, 100), Q(92, 100), Q(95, 100),
    QOne, QInt(95) }

\* the thresholds dict the code receives
Texts(t) ==
  [good |-> t.good.text, satisfactory |-> t.satisfactory.text,
   needs_improvement |-> t.needs_improvement.text]

RatingInit ==
  /\ rt_value \in RatingValues
  /\ rt_thresholds \in
       [good : ThresholdPool, satisfactory : ThresholdPool,
        needs_improvement : ThresholdPool]
  /\ rt_rating = "pending"
  /\ rt_shown = "pending"
  /\ AggIdle
  /\ SessionIdle
  /\ EvalIdle
  /\ RoutineIdle
  /\ FloatIdle
  /\ MainAGIdle
  /\ ExtrasIdle
  /\ FnIdle

\* a call of SmartCalculationEngine._apply_thresholds_smart
ApplyThresholds ==
  /\ rt_rating = "pending"
  /\ rt_rating' = apply_thresholds_smart(rt_value, Texts(rt_thresholds))
  /\ UNCHANGED <<rt_value, rt_thresholds, rt_shown, ag_vars, ss_vars, ev_vars, rc_vars, fl_vars, fn_vars, ma_vars, ex_vars>>

\* a call of AdvancedMeinhardt.get_rating_for_value, as the calculation
\* views make it for a stored result
ShowRating ==
  /\ rt_shown = "pending"
  /\ rt_shown' = get_rating_for_value(rt_value, Texts(rt_thresholds))
  /\ UNCHANGED <<rt_value, rt_thresholds, rt_rating, ag_vars, ss_vars, ev_vars, rc_vars, fl_vars, fn_vars, ma_vars, ex_vars>>

RatingNext == ApplyThresholds \/ ShowRating

SpecRating == RatingInit /\ [][RatingNext]_vars

(***************************************************************************)
(* What a threshold expression written in one of the documented forms      *)
(* says about a value (a percent suffix divides the bounds by 100).        *)
(***************************************************************************)
Bound(e, b) == IF e.pct THEN QDiv(b, QHundred) ELSE b

Satisfies(v, e) ==
  CASE e.form = "gt" -> QGt(v, Bound(e, e.lo))
    [] e.form = "ge" -> QGe(v, Bound(e, e.lo))
    [] e.form = "lt" -> QLt(v, Bound(e, e.lo))
    [] e.form = "le" -> QLe(v, Bound(e, e.lo))
    [] e.form = "eq" -> v = Bound(e, e.lo)
    [] e.form = "bare" -> QGe(v, Bound(e, e.lo))
    [] e.form = "range" -> QLe(Bound(e, e.lo), v) /\ QLe(v, Bound(e, e.hi))
    [] OTHER -> FALSE

WellFormedForms == {"gt", "ge", "lt", "le", "eq", "range"}

WellFormedTriple(t) ==
  /\ t.good.form \in WellFormedForms
  /\ t.satisfactory.form \in WellFormedForms
  /\ t.needs_improvement.form \in WellFormedForms

\* C5: the rating classifier is total: for every value and every well-formed
\* threshold triple (>N, <N, >=N, <=N, A-B, =N, with or without a percent
\* suffix, negative bounds included) it returns one of Good, Satisfactory,
\* Needs Improvement and raises nothing.
C5_ClassifierTotal ==
  /\ (rt_rating # "pending" /\ WellFormedTriple(rt_thresholds))
       => rt_rating \in Ratings
  /\ (rt_shown # "pending" /\ WellFormedTriple(rt_thresholds))
       => rt_shown \in Ratings

SupportedForms == {"gt", "ge", "lt", "le", "range"}

SupportedTriple(t) ==
  /\ t.good.form \in SupportedForms /\ ~t.good.pct
  /\ t.satisfactory.form \in SupportedForms /\ ~t.satisfactory.pct
  /\ t.needs_improvement.form \in SupportedForms /\ ~t.needs_improvement.pct

NonNegativeTriple(t) ==
  /\ QGe(t.good.lo, QZero)
  /\ QGe(t.satisfactory.lo, QZero)
  /\ QGe(t.needs_improvement.lo, QZero)

\* C6: the thresholds are evaluated in the order Good, Satisfactory, Needs
\* Improvement and the first match wins: for every value and every triple
\* written in the forms >N, <N, >=N, <=N, A-B the result is Good whenever
\* the value satisfies the Good expression, otherwise Satisfactory whenever
\* it satisfies the Satisfactory expression, otherwise Needs Improvement
\* whenever it satisfies the Needs Improvement expression.
C6_FirstMatchWins ==
  (/\ rt_rating # "pending"
   /\ SupportedTriple(rt_thresholds)
   /\ NonNegativeTriple(rt_thresholds))
    => IF Satisfies(rt_value, rt_thresholds.good)
         THEN rt_rating = "Good"
       ELSE IF Satisfies(rt_value, rt_thresholds.satisfactory)
         THEN rt_rating = "Satisfactory"
       ELSE Satisfies(rt_value, rt_thresholds.needs_improvement)
              => rt_rating = "Needs Improvement"


(***************************************************************************)
(* SpecAgg: one call of one aggregator on a parent with up to MaxChildren  *)
(* children.  A child is the weight its definition carries and the result  *)
(* dict the implementation's own evaluator leaves for it; state names what *)
(* that result stands for.                                                 *)
(***************************************************************************)
MaxChildren == 2

Names == <<"c1", "c2", "c3", "c4", "c5">>

Child(weight, state, result) ==
  [weight |-> weight, state |-> state, result |-> result]

AggWeights == {0, 40, 60}
\* child values on the engine's decimal scale and on the percent scale of
\* WeightedAggregator and MainAGModule
DecimalValues == {QZero, Q(7, 10), Q(9, 10), Q(3, 2)}
PercentValues == {QZero, QInt(70), QInt(90), QInt(150)}

\* what SmartCalculationEngine.calculate_ac returns
SmartACResults ==
  { Child(w, "valid", NumResult(v, default_band(v), "quantitative")) :
      w \in AggWeights, v \in DecimalValues }
  \cup { Child(w, "needs_review", ReviewResult("Invalid mathematical expression")) :
           w \in AggWeights }
  \cup { Child(w, "qualitative", TextResult("Yes", "Good", "qualitative")) :
           w \in AggWeights }
  \cup { Child(w, "descriptive",
               TextResult("Manual Assessment Required", "N/A", "descriptive")) :
           w \in AggWeights }
  \cup { Child(w, "error", ErrorResult("Unknown formula type")) : w \in AggWeights }

\* what SmartCalculationEngine.aggregate_to_ps returns
SmartPSResults ==
  { Child(w, "valid", NumResult(v, default_band(v), "")) :
      w \in AggWeights, v \in DecimalValues \ {QZero} }
  \cup { Child(w, "error", ErrorResult("No valid AC values")) : w \in AggWeights }

\* what FormulaParser.evaluate returns: a float (0.0 on any error) or a label
ParserResults ==
  { Child(w, "valid", NumResult(v, "", "")) : w \in AggWeights, v \in PercentValues }
  \cup { Child(w, "error", NumResult(QZero, "", "")) : w \in AggWeights }
  \cup { Child(w, "qualitative", TextResult("Yes", "", "")) : w \in AggWeights }

\* what WeightedAggregator.aggregate_to_ps returns
WeightedPSResults ==
  { Child(w, "valid", Result("num", v, "", WeightedAggregator_get_rating(v), "",
                             FALSE, "calculated", "")) :
      w \in AggWeights, v \in PercentValues }

\* what MainAGModule._calculate_ac_score stores
MainAGACResults ==
  { Child(w, "valid", Result("num", v, "", "", "", FALSE, "calculated", "")) :
      w \in AggWeights, v \in PercentValues }
  \cup { Child(w, "qualitative",
               Result("str", QZero, t, "", "", FALSE, "calculated", "")) :
           w \in AggWeights, t \in {"Yes", "N/A"} }
  \cup { Child(w, "error", Result("none", QZero, "", "N/A", "", FALSE, "error", "")) :
           w \in AggWeights }
  \cup { Child(w, "incomplete",
               Result("none", QZero, "", "N/A", "", FALSE, "incomplete", "")) :
           w \in AggWeights }

\* what MainAGModule._calculate_ps_score stores
MainAGPSResults ==
  { Child(w, "valid", Result("num", v, "", MainAG_get_rating(v), "", FALSE,
                             "calculated", "")) :
      w \in AggWeights, v \in PercentValues }
  \cup { Child(w, "error", Result("none", QZero, "", "N/A", "", FALSE, "error",
                                  "Total weight is zero")) : w \in AggWeights }
  \cup { Child(w, "incomplete",
               Result("none", QZero, "", "N/A", "", FALSE, "incomplete", "")) :
           w \in AggWeights }

ChildPool(call) ==
  CASE call.impl = "smart" /\ call.level = "ps" -> SmartACResults
    [] call.impl = "smart" /\ call.level = "kt" -> SmartPSResults
    [] call.impl = "weighted" /\ call.level = "ps" -> ParserResults
    [] call.impl = "weighted" /\ call.level = "kt" -> WeightedPSResults
    [] call.impl = "mainag" /\ call.level = "ps" -> MainAGACResults
    [] call.impl = "mainag" /\ call.level = "kt" -> MainAGPSResults

StandardThresholds ==
  [good |-> <<">", "0", ".", "9", "5">>,
   satisfactory |-> <<"0", ".", "8", "5", "-", "0", ".", "9", "5">>,
   needs_improvement |-> <<"<", "0", ".", "8", "5">>]

\* the database and the result dict that hold a parent "P" with these children
ChildNames(children) == [i \in 1..Len(children) |-> Names[i]]
ChildIndex(name) == CHOOSE i \in 1..Len(Names) : Names[i] = name
ChildResults(children) ==
  [name \in {Names[i] : i \in 1..Len(children)} |->
     children[ChildIndex(name)].result]

AC(formula, thresholds, weight, performance_signal, formula_type) ==
  [formula |-> formula, thresholds |-> thresholds, weight |-> weight,
   performance_signal |-> performance_signal, formula_type |-> formula_type]
PS(assessment_criteria, weight, thresholds, key_topic) ==
  [assessment_criteria |-> assessment_criteria, weight |-> weight,
   thresholds |-> thresholds, key_topic |-> key_topic]
KT(performance_signals, thresholds, pillar) ==
  [performance_signals |-> performance_signals, thresholds |-> thresholds,
   pillar |-> pillar]

ParentDb(level, children, thresholds) ==
  LET names == ChildNames(children)
      nameset == {names[i] : i \in 1..Len(names)}
      weight(name) == children[ChildIndex(name)].weight
  IN  IF level = "ps"
        THEN [assessment_criteria |->
                [name \in nameset |->
                   AC(<<>>, NoThresholds, weight(name), "P", "quantitative")],
              ac_order |-> names,
              performance_signals |-> ("P" :> PS(names, 0, thresholds, "K")),
              ps_order |-> <<"P">>,
              key_topics |-> ("K" :> KT(<<"P">>, NoThresholds, "")),
              kt_order |-> <<"K">>]
        ELSE [assessment_criteria |-> <<>>,
              ac_order |-> <<>>,
              performance_signals |->
                [name \in nameset |-> PS(<<>>, weight(name), NoThresholds, "P")],
              ps_order |-> names,
              key_topics |-> ("P" :> KT(names, thresholds, "")),
              kt_order |-> <<"P">>]

\* the call that ag_call names, on a list of children
Aggregate(call, children, thresholds) ==
  LET parent  == ParentDb(call.level, children, thresholds)
      results == ChildResults(children)
      names   == ChildNames(children)
  IN  CASE call.impl = "smart" /\ call.level = "ps" ->
             aggregate_to_ps(parent, "P", results)
        [] call.impl = "smart" /\ call.level = "kt" ->
             aggregate_to_kt(parent, "P", results)
        [] call.impl = "weighted" /\ call.level = "ps" ->
             WeightedAggregator_aggregate_to_ps(results, names, parent.assessment_criteria)
        [] call.impl = "weighted" /\ call.level = "kt" ->
             WeightedAggregator_aggregate_to_kt(results, names, parent.performance_signals)
        [] call.impl = "mainag" /\ call.level = "ps" ->
             MainAG_calculate_ps_score(parent, "P", results)
        [] call.impl = "mainag" /\ call.level = "kt" ->
             MainAG_calculate_kt_score(parent, "P", results)

AggInit ==
  /\ ag_call \in [impl : {"smart", "weighted", "mainag"}, level : {"ps", "kt"}]
  /\ \E m \in 1..MaxChildren : ag_children \in [1..m -> ChildPool(ag_call)]
  /\ ag_thresholds \in
       IF ag_call.impl = "smart" THEN {NoThresholds, StandardThresholds}
       ELSE {NoThresholds}
  /\ ag_done = FALSE
  /\ ag_out = NoResult
  /\ RatingIdle
  /\ SessionIdle
  /\ EvalIdle
  /\ RoutineIdle
  /\ FloatIdle
  /\ MainAGIdle
  /\ ExtrasIdle
  /\ FnIdle

Called(impl, level) == ag_call = [impl |-> impl, level |-> level] /\ ~ag_done

SmartAggregateToPS ==
  /\ Called("smart", "ps")
  /\ ag_out' = Aggregate(ag_call, ag_children, ag_thresholds)
  /\ ag_done' = TRUE
  /\ UNCHANGED <<ag_call, ag_children, ag_thresholds, rt_vars, ss_vars, ev_vars, rc_vars, fl_vars, fn_vars, ma_vars, ex_vars>>

SmartAggregateToKT ==
  /\ Called("smart", "kt")
  /\ ag_out' = Aggregate(ag_call, ag_children, ag_thresholds)
  /\ ag_done' = TRUE
  /\ UNCHANGED <<ag_call, ag_children, ag_thresholds, rt_vars, ss_vars, ev_vars, rc_vars, fl_vars, fn_vars, ma_vars, ex_vars>>

WeightedAggregateToPS ==
  /\ Called("weighted", "ps")
  /\ ag_out' = Aggregate(ag_call, ag_children, ag_thresholds)
  /\ ag_done' = TRUE
  /\ UNCHANGED <<ag_call, ag_children, ag_thresholds, rt_vars, ss_vars, ev_vars, rc_vars, fl_vars, fn_vars, ma_vars, ex_vars>>

WeightedAggregateToKT ==
  /\ Called("weighted", "kt")
  /\ ag_out' = Aggregate(ag_call, ag_children, ag_thresholds)
  /\ ag_done' = TRUE
  /\ UNCHANGED <<ag_call, ag_children, ag_thresholds, rt_vars, ss_vars, ev_vars, rc_vars, fl_vars, fn_vars, ma_vars, ex_vars>>

MainAGCalculatePSScore ==
  /\ Called("mainag", "ps")
  /\ ag_out' = Aggregate(ag_call, ag_children, ag_thresholds)
  /\ ag_done' = TRUE
  /\ UNCHANGED <<ag_call, ag_children, ag_thresholds, rt_vars, ss_vars, ev_vars, rc_vars, fl_vars, fn_vars, ma_vars, ex_vars>>

MainAGCalculateKTScore ==
  /\ Called("mainag", "kt")
  /\ ag_out' = Aggregate(ag_call, ag_children, ag_thresholds)
  /\ ag_done' = TRUE
  /\ UNCHANGED <<ag_call, ag_children, ag_thresholds, rt_vars, ss_vars, ev_vars, rc_vars, fl_vars, fn_vars, ma_vars, ex_vars>>

AggNext ==
  \/ SmartAggregateToPS
  \/ SmartAggregateToKT
  \/ WeightedAggregateToPS
  \/ WeightedAggregateToKT
  \/ MainAGCalculatePSScore
  \/ MainAGCalculateKTScore

SpecAgg == AggInit /\ [][AggNext]_vars


(***************************************************************************)
(* Aggregation claims, over SpecAgg.                                       *)
(***************************************************************************)
\* the children the called implementation takes into its sums
Included(call, child) ==
  CASE call.impl = "smart" ->
         /\ child.result.kind = "num"
         /\ QGt(child.result.value, QZero)
         /\ ~child.result.needs_review
    [] call.impl = "weighted" -> child.weight > 0
    [] call.impl = "mainag" ->
         /\ child.result.status = "calculated"
         /\ child.result.kind # "none"
         /\ (child.result.kind = "str"
               => qualitative_to_score(child.result.text) >= 0)

\* the value a child brings on the implementation's scale: the percent
\* scale is capped at 100, a qualitative label counts as its score
ChildValue(call, child) ==
  IF child.result.kind = "str"
    THEN QInt(qualitative_to_score(child.result.text))
  ELSE IF call.impl = "weighted" THEN QMin(child.result.value, QHundred)
  ELSE child.result.value

IncludedWeight(call, children) ==
  LET sum[i \in 0..Len(children)] ==
        IF i = 0 THEN 0
        ELSE sum[i - 1] + (IF Included(call, children[i])
                             THEN children[i].weight ELSE 0)
  IN  sum[Len(children)]

IncludedProduct(call, children) ==
  LET sum[i \in 0..Len(children)] ==
        IF i = 0 THEN QZero
        ELSE IF Included(call, children[i])
          THEN QAdd(sum[i - 1], QMul(ChildValue(call, children[i]),
                                     QInt(children[i].weight)))
          ELSE sum[i - 1]
  IN  sum[Len(children)]

Numeric(result) == result.kind = "num" /\ result.error = ""

SixtyForty ==
  /\ Len(ag_children) = 2
  /\ ag_children[1].weight = 60 /\ ag_children[2].weight = 40
  /\ ag_children[1].state = "valid" /\ ag_children[2].state = "valid"
  /\ ag_children[1].result.value = Q(9, 10)
  /\ ag_children[2].result.value = Q(7, 10)

\* C2: every PS value and every KT value is
\* sum(child.value * child.weight) / sum(child.weight) over the children the
\* aggregation includes, the weights being those of the database; two ACs
\* of weights 60 and 40 and values 0.9 and 0.7 give a PS value of 0.82.
C2_WeightedAverage ==
  ag_done =>
    /\ (Numeric(ag_out) /\ IncludedWeight(ag_call, ag_children) > 0
          => ag_out.value = QDiv(IncludedProduct(ag_call, ag_children),
                                 QInt(IncludedWeight(ag_call, ag_children))))
    /\ (SixtyForty /\ ag_call.level = "ps" => ag_out.value = Q(82, 100))

SameValue(a, b) == a.kind = b.kind /\ a.value = b.value

\* C3: in every PS and KT aggregation a child whose result is invalid or
\* unresolved (error, incomplete, needs-review, qualitative, descriptive) is
\* treated as absent, not as zero: the parent's value is the value computed
\* with that child removed from the child list.
C3_InvalidChildAbsent ==
  ag_done =>
    \A i \in 1..Len(ag_children) :
      ag_children[i].state # "valid"
        => SameValue(ag_out,
                     Aggregate(ag_call, Without(ag_children, i), ag_thresholds))

(***************************************************************************)
(* Spec: an AdvancedMeinhardt session (main_ag_enhanced.py) over a small   *)
(* database.  The operator enters data-point values and runs CALCULATE     *)
(* ALL.  formula_overrides, which no action of this specification writes,  *)
(* stays empty, so that every AC takes the branch without an override;     *)
(* SpecOverride adds the handlers that write it.                           *)
(***************************************************************************)
MalformedThresholds ==
  [good |-> Chars("1-2-3"), satisfactory |-> <<>>, needs_improvement |-> <<>>]

QualitativeThresholds ==
  [good |-> Chars("Yes"), satisfactory |-> Chars("Partially"),
   needs_improvement |-> Chars("No")]

\* the loaded JSON database; ps_thresholds are the thresholds of "PS1"
SessionDatabase(ps_thresholds) ==
  [data_points |-> <<Chars("Earned Value (EV)"), Chars("Planned Value (PV)")>>,
   assessment_criteria |->
     [name \in {"AC1", "AC2", "AC3", "AC4"} |->
        CASE name = "AC1" ->
               AC(Chars("Earned Value (EV) / Planned Value (PV)"),
                  StandardThresholds, 60, "PS1", "quantitative")
          [] name = "AC2" ->
               AC(Chars("Defects closed / Inspections"), NoThresholds, 40,
                  "PS1", "quantitative")
          [] name = "AC3" ->
               AC(Chars("Earned Value (EV) - Planned Value (PV)"),
                  MalformedThresholds, 1, "PS2", "quantitative")
          [] name = "AC4" ->
               AC(Chars("Completion of the safety plan"),
                  QualitativeThresholds, 1, "PS2", "qualitative")],
   ac_order |-> <<"AC1", "AC2", "AC3", "AC4">>,
   performance_signals |->
     [name \in {"PS1", "PS2"} |->
        IF name = "PS1" THEN PS(<<"AC1", "AC2">>, 60, ps_thresholds, "KT1")
        ELSE PS(<<"AC3", "AC4">>, 40, NoThresholds, "KT1")],
   ps_order |-> <<"PS1", "PS2">>,
   key_topics |-> ("KT1" :> KT(<<"PS1", "PS2">>, NoThresholds, "P&M")),
   kt_order |-> <<"KT1">>]

\* what a number input can hold
DpValues == {QZero, QInt(920000), QInt(1000000)}

\* AdvancedMeinhardt.__init__ and init_session_state
Init ==
  /\ db \in {SessionDatabase(StandardThresholds),
             SessionDatabase(MalformedThresholds)}
  /\ dp_values = <<>>
  /\ qualitative_inputs = <<>>
  /\ ac_results = <<>>
  /\ ps_results = <<>>
  /\ kt_results = <<>>
  /\ formula_issues = <<>>
  /\ uncaught = ""
  /\ RatingIdle
  /\ AggIdle
  /\ EvalIdle
  /\ RoutineIdle
  /\ FloatIdle
  /\ MainAGIdle
  /\ ExtrasIdle
  /\ FnIdle

\* the position of a key in dp_values, 0 when it is not a key
index_of(values, name) ==
  IF \E i \in 1..Len(values) : values[i].name = name
    THEN CHOOSE i \in 1..Len(values) : values[i].name = name
    ELSE 0

\* render_quantitative_input_by_pillar: "current = dp_values.get(dp_name, 0)"
\* and "if value != current: dp_values[dp_name] = value"
SetDpValue ==
  \E name \in Range(db.data_points), value \in DpValues :
    /\ IF index_of(dp_values, name) = 0
         THEN /\ value # QZero
              /\ dp_values' = Append(dp_values, [name |-> name, value |-> value])
         ELSE /\ value # dp_values[index_of(dp_values, name)].value
              /\ dp_values' =
                   [dp_values EXCEPT ![index_of(dp_values, name)].value = value]
    /\ uncaught' = ""
    /\ UNCHANGED <<db, qualitative_inputs, ac_results, ps_results, kt_results,
                   formula_issues, rt_vars, ag_vars, ev_vars, rc_vars, fl_vars, fn_vars, ma_vars, ex_vars>>

\* "for name in order: results[name] = ..." left by the first result that
\* is an exception: the entries before it are stored
first_raise(computed) ==
  IF \E i \in 1..Len(computed) : computed[i].kind = "raise"
    THEN CHOOSE i \in 1..Len(computed) :
           /\ computed[i].kind = "raise"
           /\ \A j \in 1..(i - 1) : computed[j].kind # "raise"
    ELSE Len(computed) + 1

stored(old, order, computed) ==
  [name \in DOMAIN old \cup {order[i] : i \in 1..(first_raise(computed) - 1)} |->
     IF \E i \in 1..(first_raise(computed) - 1) : order[i] = name
       THEN computed[CHOOSE i \in 1..Len(order) : order[i] = name]
       ELSE old[name]]

raised_by(computed) ==
  IF first_raise(computed) <= Len(computed)
    THEN computed[first_raise(computed)].error
    ELSE ""

\* AdvancedMeinhardt.aggregate_all: the PS loop, then the KT loop
aggregate_kts(ps_new, kt_old, order, kt_computed) ==
  [ps_results |-> ps_new, kt_results |-> stored(kt_old, order, kt_computed),
   raised |-> raised_by(kt_computed)]

aggregate_pss(database, ps_new, kt_old, ps_computed) ==
  IF raised_by(ps_computed) # ""
    THEN [ps_results |-> ps_new, kt_results |-> kt_old,
          raised |-> raised_by(ps_computed)]
    ELSE aggregate_kts(ps_new, kt_old, database.kt_order,
                       [i \in 1..Len(database.kt_order) |->
                          aggregate_to_kt(database, database.kt_order[i], ps_new)])

aggregate_loops(database, ps_old, kt_old, ps_computed) ==
  aggregate_pss(database, stored(ps_old, database.ps_order, ps_computed),
                kt_old, ps_computed)

aggregate_all(database, results, ps_old, kt_old) ==
  aggregate_loops(database, ps_old, kt_old,
                  [i \in 1..Len(database.ps_order) |->
                     aggregate_to_ps(database, database.ps_order[i], results)])

\* "result.get('value') is None or result.get('value') == 0"
is_issue(result) ==
  result.kind = "none" \/ (result.kind = "num" /\ result.value = QZero)

\* "if ac_name in st.session_state.formula_overrides": an override that is
\* a dict is the result; with any other override, and without one, the
\* result is engine.calculate_ac(ac_name, ...)
overridden(overrides, name) ==
  name \in DOMAIN overrides /\ overrides[name].kind = "dict"

ac_result(database, overrides, name, values, inputs) ==
  IF overridden(overrides, name) THEN overrides[name].result
  ELSE calculate_ac(database, name, values, inputs)

\* AdvancedMeinhardt.calculate_all_comprehensive, aggregate_all included
CalculateAllComprehensive ==
  /\ ac_results' =
       [name \in DOMAIN ac_results \cup Range(db.ac_order) |->
          IF name \in Range(db.ac_order)
            THEN ac_result(db, formula_overrides, name, dp_values,
                           qualitative_inputs)
            ELSE ac_results[name]]
  /\ formula_issues' =
       SelectSeq(db.ac_order, LAMBDA name :
                   /\ ~overridden(formula_overrides, name)
                   /\ is_issue(ac_results'[name]))
  /\ \E out \in {aggregate_all(db, ac_results', ps_results, kt_results)} :
       /\ ps_results' = out.ps_results
       /\ kt_results' = out.kt_results
       /\ uncaught' = out.raised
  /\ UNCHANGED <<db, dp_values, qualitative_inputs, rt_vars, ag_vars, ev_vars, rc_vars, fl_vars, fn_vars, ma_vars, ex_vars>>

Next == SetDpValue \/ CalculateAllComprehensive

Spec == Init /\ [][Next]_vars


(***************************************************************************)
(* Claims about a calculate-all run.                                       *)
(***************************************************************************)
\* dp_values holds this value under this name
Entered(name, value) ==
  \E i \in 1..Len(dp_values) :
    dp_values[i] = [name |-> Chars(name), value |-> value]

EarnedValueExample ==
  /\ Entered("Earned Value (EV)", QInt(920000))
  /\ Entered("Planned Value (PV)", QInt(1000000))

\* C1: with EV = 920000 and PV = 1000000 entered, a calculation of the AC
\* "Earned Value (EV) / Planned Value (PV)" with thresholds good ">0.95",
\* satisfactory "0.85-0.95", needs improvement "<0.85" stores the value
\* 0.92 and the rating "Satisfactory"
C1_EarnedValueRatio ==
  [][(CalculateAllComprehensive /\ EarnedValueExample)
       => ac_results'["AC1"] =
            NumResult(Q(92, 100), "Satisfactory", "quantitative")]_vars

C1_Witness ==
  /\ EarnedValueExample
  /\ "AC1" \in DOMAIN ac_results
  /\ ac_results["AC1"].value = Q(92, 100)
  /\ ac_results["AC1"].rating = "Satisfactory"

\* the quantitative ACs of the database for which no DP matches
Quantitative(name) ==
  determine_formula_type(clean_text(db.assessment_criteria[name].formula),
                         db.assessment_criteria[name].thresholds)
    = "quantitative"

Unmatched(name) ==
  /\ Quantitative(name)
  /\ find_matching_dps(clean_text(db.assessment_criteria[name].formula),
                       dp_values) = <<>>

\* a result dict that says the AC could not be computed
Flagged(result) ==
  result.status = "incomplete" \/ result.needs_review \/ result.error # ""

ZeroValue(result) == result.kind = "num" /\ result.value = QZero

\* results without the entry of one AC
Except(results, name) == [n \in DOMAIN results \ {name} |-> results[n]]

\* C4: a quantitative AC for which the matcher finds no DP is stored as
\* incomplete with the value 0, and its parent PS is averaged without it
C4_NoMatchIncomplete ==
  [][CalculateAllComprehensive
       => \A name \in Range(db.ac_order) :
            Unmatched(name) =>
              /\ Flagged(ac_results'[name])
              /\ ZeroValue(ac_results'[name])
              /\ aggregate_to_ps(db, db.assessment_criteria[name].performance_signal,
                                 ac_results')
                   = aggregate_to_ps(db, db.assessment_criteria[name].performance_signal,
                                     Except(ac_results', name))]_vars

\* an AC whose calculation failed: no DP matched, or the evaluation of the
\* formula or the rating of its value raised
Failed(name) ==
  \/ Unmatched(name)
  \/ /\ Quantitative(name)
     /\ calculate_quantitative_proper(
          clean_text(db.assessment_criteria[name].formula), dp_values,
          db.assessment_criteria[name].thresholds).needs_review

\* C9: a calculate-all run stores every failed AC with a warning and the
\* value 0, and always goes on to store every PS and every KT
C9_FailuresIsolated ==
  [][CalculateAllComprehensive
       => /\ \A name \in Range(db.ac_order) :
               Failed(name) => /\ Flagged(ac_results'[name])
                               /\ ZeroValue(ac_results'[name])
          /\ uncaught' = ""
          /\ DOMAIN ps_results' = Range(db.ps_order)
          /\ DOMAIN kt_results' = Range(db.kt_order)]_vars

(***************************************************************************)
(* SpecEval: the three formula evaluators called on the formulas of a      *)
(* pool with every choice of stored values.                                *)
(***************************************************************************)
EvalDataPoints == <<Chars("Earned Value (EV)"), Chars("Planned Value (PV)")>>

\* the database around one AC with this formula
EvalDatabase(formula, formula_type) ==
  [data_points |-> EvalDataPoints,
   assessment_criteria |->
     ("AC" :> AC(formula, StandardThresholds, 1, "PS", formula_type))]

EvalFormulas ==
  {Chars("Earned Value (EV) / Planned Value (PV)"),
   Chars("Earned Value / Planned Value"),
   Chars("(EV) / (PV)"),
   Chars("(EV) / (PV) + (EV)"),
   Chars("(EV) ** (PV)"),
   Chars("(EV) *** (PV)"),
   Chars("(EV) // (PV)"),
   Chars("(EV) % (PV)"),
   Chars("(EV)(PV) / 2"),
   Chars("Schedule Performance Index (EV) / (PV)"),
   Chars("Defects closed / Inspections"),
   Chars("Completion of the plan: Yes or No"),
   Chars("Earned Value status"),
   <<>>}

EvalNumbers == {QZero, QInt(2), QInt(3)}

\* the dicts over the data points, in every insertion order
EvalValues ==
  {<<>>}
    \cup {<<[name |-> n, value |-> v]>> : n \in Range(EvalDataPoints), v \in EvalNumbers}
    \cup {<<[name |-> EvalDataPoints[k], value |-> v],
            [name |-> EvalDataPoints[3 - k], value |-> w]>> :
            k \in 1..2, v \in EvalNumbers, w \in EvalNumbers}

EvalInit ==
  /\ ev_formula \in EvalFormulas
  /\ ev_values \in EvalValues
  /\ ev_type \in {"quantitative", "qualitative"}
  /\ ev_call = ""
  /\ ev_out = NoResult
  /\ ev_expr = NotReached
  /\ RatingIdle
  /\ AggIdle
  /\ SessionIdle
  /\ RoutineIdle
  /\ FloatIdle
  /\ MainAGIdle
  /\ ExtrasIdle
  /\ FnIdle

\* the text SmartCalculationEngine.calculate_ac gives to eval()
smart_reached(clean_formula) ==
  IF reaches_eval(clean_formula) THEN Reached(eval_formula(clean_formula))
  ELSE NotReached

smart_matched(matched_dps, formula) ==
  IF matched_dps = <<>> THEN NotReached
  ELSE smart_reached(clean_formula_of(matched_dps, formula))

smart_expression(formula, values) ==
  IF determine_formula_type(formula, StandardThresholds) = "quantitative"
    THEN smart_matched(find_matching_dps(formula, values), formula)
    ELSE NotReached

\* the text FormulaParser.evaluate gives to ast.parse()
parser_reached(expression) ==
  IF Strip(expression) = <<>> THEN NotReached ELSE Reached(expression)

parser_parsed(formula, variables) ==
  IF formula = <<>> \/ is_qualitative(formula) THEN NotReached
  ELSE parser_reached(parser_expression(formula, variables))

\* the text FormulaEngine.evaluate gives to eval()
engine_reached(working_formula) ==
  IF \E c \in Operators : Contains(working_formula, c)
    THEN Reached(working_formula)
    ELSE NotReached

engine_parsed(formula, references, formula_type) ==
  IF formula = <<>> \/ formula_type = "qualitative" \/ references = <<>>
    THEN NotReached
    ELSE engine_reached(engine_expression(formula, references))

SmartCalculateAc ==
  /\ ev_call = ""
  /\ ev_call' = "smart"
  /\ ev_out' = calculate_ac(EvalDatabase(ev_formula, ev_type), "AC", ev_values, <<>>)
  /\ ev_expr' = smart_expression(clean_text(ev_formula), ev_values)
  /\ UNCHANGED <<ev_formula, ev_values, ev_type, rt_vars, ag_vars, ss_vars, rc_vars, fl_vars, fn_vars, ma_vars, ex_vars>>

ParserEvaluate ==
  /\ ev_call = ""
  /\ ev_call' = "parser"
  /\ ev_out' = parser_evaluate(ev_formula, ev_values)
  /\ ev_expr' = parser_parsed(Strip(ev_formula), ev_values)
  /\ UNCHANGED <<ev_formula, ev_values, ev_type, rt_vars, ag_vars, ss_vars, rc_vars, fl_vars, fn_vars, ma_vars, ex_vars>>

EngineEvaluate ==
  /\ ev_call = ""
  /\ ev_call' = "engine"
  /\ ev_out' = engine_evaluate(EvalDataPoints, ev_formula, ev_values, ev_type)
  /\ ev_expr' = engine_parsed(ev_formula,
                              stored_references(
                                extract_dp_references(EvalDataPoints, ev_formula),
                                ev_values),
                              ev_type)
  /\ UNCHANGED <<ev_formula, ev_values, ev_type, rt_vars, ag_vars, ss_vars, rc_vars, fl_vars, fn_vars, ma_vars, ex_vars>>

EvalNext == SmartCalculateAc \/ ParserEvaluate \/ EngineEvaluate

SpecEval == EvalInit /\ [][EvalNext]_vars


(***************************************************************************)
(* Claims about the evaluators.                                            *)
(***************************************************************************)
\* arithmetic on the text finds a division by zero
DividesByZero(text) ==
  py_parse(text, "eval").ok /\ py_parse(text, "eval").zero

\* FormulaParser.evaluate took the quantitative path
ParserQuantitative ==
  /\ ev_call = "parser"
  /\ Strip(ev_formula) # <<>>
  /\ ~is_qualitative(Strip(ev_formula))

\* C7: when the expression that substitution leaves divides by zero, the
\* evaluator does not raise and returns the value 0, with an evaluation
\* status where it returns one
C7_DivisionByZero ==
  /\ (ev_call = "smart" /\ ev_expr.reached /\ DividesByZero(ev_expr.text))
       => /\ ev_out.kind # "raise"
          /\ ZeroValue(ev_out)
          /\ Flagged(ev_out)
  /\ (ParserQuantitative
        /\ DividesByZero(parser_substituted(Strip(ev_formula), ev_values)))
       => /\ ev_out.kind # "raise"
          /\ ZeroValue(ev_out)

\* the formula has references and none of them is a key of the values
NoneResolves ==
  /\ extract_dp_references(EvalDataPoints, ev_formula) # <<>>
  /\ stored_references(extract_dp_references(EvalDataPoints, ev_formula),
                       ev_values) = <<>>

\* the expression was given to eval() and eval() failed
EvaluationFails ==
  /\ ev_expr.reached
  /\ ~value_of(py_parse(ev_expr.text, "eval")).ok

\* C8: FormulaEngine.evaluate does not raise and returns one of the three
\* statuses: "incomplete" when no reference of the formula is stored, and
\* "error" with the value 0 when the evaluation of the expression fails
C8_EngineStatus ==
  ev_call = "engine" =>
    /\ ev_out.kind # "raise"
    /\ ev_out.status \in {"calculated", "incomplete", "error"}
    /\ NoneResolves => ev_out.status = "incomplete"
    /\ EvaluationFails => ev_out.status = "error" /\ ZeroValue(ev_out)

\* the tokens are number literals, + - * / and parentheses, and no
\* parenthesis opens behind an operand, which would be a call
OnlyArithmetic(toks) ==
  /\ \A k \in 1..Len(toks) :
       toks[k].t = "num" \/ IsOp(toks, k, {"+", "-", "*", "/", "(", ")"})
  /\ \A k \in 1..(Len(toks) - 1) :
       ~((toks[k].t = "num" \/ IsOp(toks, k, {")"})) /\ IsOp(toks, k + 1, {"("}))

\* C10: a text that an evaluator gives to eval() or ast.parse() is made of
\* number literals, the operators + - * / and parentheses only: no power,
\* floor division, modulo or call is in it
C10_OnlyArithmetic ==
  ev_expr.reached => OnlyArithmetic(py_tokens(ev_expr.text, 1))

(***************************************************************************)
(* SpecRoutines: one call of one rating routine of the repository on a     *)
(* value and a thresholds dict.  The level routines take no thresholds.    *)
(***************************************************************************)
DecimalRoutines == {"smart", "enhanced", "dashboard"}
PercentRoutines == {"calculator", "parser", "mainag", "weighted", "mainag_level"}
TypedRoutines == {"calculator", "parser", "mainag"}
LevelRoutines == {"weighted", "mainag_level"}
Routines == DecimalRoutines \cup PercentRoutines \cup {"analyze"}

GoodTexts ==
  {Chars(">90"), Chars(">0.9"), Chars("90"), Chars(">90%"), Chars(">abc")}
SatisfactoryTexts ==
  {Chars("70-90"), Chars("0.7-0.9"), Chars("70"), Chars("70-90%"),
   Chars("0.5-1.5%"), Chars("1-2-3")}
NeedsTexts == {Chars("<70"), Chars("<0.7"), Chars("<1%")}

NoThresholdDicts ==
  {Thresholds("absent", <<>>, <<>>, <<>>), Thresholds("none", <<>>, <<>>, <<>>)}

ThresholdDicts ==
  NoThresholdDicts \cup
  {Thresholds("text", g, s, n) : g \in GoodTexts, s \in SatisfactoryTexts,
                                  n \in NeedsTexts}

RoutineValues ==
  {QZero, Q(1, 2), Q(7, 10), Q(87, 100), Q(9, 10),
   QInt(50), QInt(70), QInt(87), QInt(90), QInt(95)}

RoutinesInit ==
  /\ rc_call \in Routines
  /\ rc_value \in RoutineValues
  /\ rc_thresholds \in ThresholdDicts
  /\ rc_type \in {"quantitative", "qualitative"}
  /\ rc_call \notin TypedRoutines => rc_type = "quantitative"
  /\ rc_call \in LevelRoutines => rc_thresholds.kind = "absent"
  /\ rc_out = "pending"
  /\ RatingIdle
  /\ AggIdle
  /\ SessionIdle
  /\ EvalIdle
  /\ FloatIdle
  /\ MainAGIdle
  /\ ExtrasIdle
  /\ FnIdle

Calling(routine) == rc_call = routine /\ rc_out = "pending"

Returns(rating) ==
  /\ rc_out' = rating
  /\ UNCHANGED <<rc_call, rc_value, rc_thresholds, rc_type, rt_vars, ag_vars,
                 ss_vars, ev_vars, fl_vars, fn_vars, ma_vars, ex_vars>>

\* SmartCalculationEngine._apply_thresholds_smart
SmartApplyThresholds ==
  /\ Calling("smart")
  /\ Returns(apply_thresholds_smart(rc_value, texts_of(rc_thresholds)))

\* AdvancedMeinhardt.get_rating_for_value
EnhancedGetRatingForValue ==
  /\ Calling("enhanced")
  /\ Returns(get_rating_for_value(rc_value, texts_of(rc_thresholds)))

\* AdvancedMeinhardt._calculate_rating_from_db
CalculateRatingFromDb ==
  /\ Calling("dashboard")
  /\ Returns(calculate_rating_from_db(rc_value, rc_thresholds))

\* SmartFormulaCalculator._get_rating
CalculatorGetRating ==
  /\ Calling("calculator")
  /\ Returns(SmartFormulaCalculator_get_rating(rc_value, rc_thresholds, rc_type))

\* FormulaParser.get_rating_for_ac
ParserGetRatingForAc ==
  /\ Calling("parser")
  /\ Returns(get_rating_for_ac(rc_thresholds, rc_value, rc_type = "qualitative"))

\* MainAGModule._get_ac_rating
MainAGGetAcRating ==
  /\ Calling("mainag")
  /\ Returns(get_ac_rating(rc_value, rc_thresholds, rc_type))

\* analyze_ag_rebuilt.render, the rating of a score
AnalyzeRating ==
  /\ Calling("analyze")
  /\ Returns(analyze_rating(rc_value, rc_thresholds))

\* WeightedAggregator._get_rating
WeightedGetRating ==
  /\ Calling("weighted")
  /\ Returns(WeightedAggregator_get_rating(rc_value))

\* MainAGModule._get_rating
MainAGGetRating ==
  /\ Calling("mainag_level")
  /\ Returns(MainAG_get_rating(rc_value))

RoutinesNext ==
  \/ SmartApplyThresholds
  \/ EnhancedGetRatingForValue
  \/ CalculateRatingFromDb
  \/ CalculatorGetRating
  \/ ParserGetRatingForAc
  \/ MainAGGetAcRating
  \/ AnalyzeRating
  \/ WeightedGetRating
  \/ MainAGGetRating

SpecRoutines == RoutinesInit /\ [][RoutinesNext]_vars

(***************************************************************************)
(* Rating-routine claims, over SpecRoutines.                               *)
(***************************************************************************)
\* the default band on the scale of a routine
DefaultBand(value, good, satisfactory) ==
  IF QGe(value, good) THEN "Good"
  ELSE IF QGe(value, satisfactory) THEN "Satisfactory"
  ELSE "Needs Improvement"

ScaleBand(routine, value) ==
  IF routine \in PercentRoutines THEN DefaultBand(value, QInt(90), QInt(70))
  ELSE DefaultBand(value, Q(9, 10), Q(7, 10))

NoExpressions == rc_thresholds \in NoThresholdDicts /\ rc_type = "quantitative"

\* C11: a rating routine called for an entity without threshold expressions
\* returns the default band of its scale: Good from 0.9 (90), Satisfactory
\* from 0.7 (70), Needs Improvement below
C11_DefaultBand ==
  (rc_out # "pending" /\ NoExpressions) => rc_out = ScaleBand(rc_call, rc_value)

MalformedTexts == {Chars(">abc"), Chars("1-2-3")}

HasMalformed ==
  /\ rc_thresholds.kind = "text"
  /\ \/ rc_thresholds.good \in MalformedTexts
     \/ rc_thresholds.satisfactory \in MalformedTexts
     \/ rc_thresholds.needs_improvement \in MalformedTexts

ClassifierRoutines == {"smart", "analyze", "mainag"}

\* C12: a classifier called with a malformed threshold string in one of the
\* three positions (an operator followed by non-numeric text, a range with
\* more than one dash) raises nothing and returns one of the three ratings
C12_MalformedSkipped ==
  (rc_out # "pending" /\ rc_call \in ClassifierRoutines /\ HasMalformed
     /\ rc_type = "quantitative")
    => rc_out \in Ratings

(***************************************************************************)
(* SpecFloat: one call of aggregate_to_ps, in binary64, on a parent with   *)
(* FloatChildren children.                                                 *)
(***************************************************************************)
FloatChildren == 3

FloatWeights == {10, 40}

FloatPool(call) ==
  IF call = "weighted"
    THEN {FloatChild(w, FInt(v)) : w \in FloatWeights, v \in {70, 90}}
    ELSE {FloatChild(w, FRatio(v, 10)) : w \in FloatWeights, v \in {7, 9}}

FloatInit ==
  /\ fl_call \in {"weighted", "smart"}
  /\ fl_children \in [1..FloatChildren -> FloatPool(fl_call)]
  /\ fl_out = FloatResult(FZero, "pending")
  /\ RatingIdle
  /\ AggIdle
  /\ SessionIdle
  /\ EvalIdle
  /\ RoutineIdle
  /\ FnIdle
  /\ MainAGIdle
  /\ ExtrasIdle

\* WeightedAggregator.aggregate_to_ps
WeightedAggregateToPSBinary64 ==
  /\ fl_call = "weighted"
  /\ fl_out.rating = "pending"
  /\ fl_out' = WeightedAggregator_aggregate_to_ps_binary64(fl_children)
  /\ UNCHANGED <<fl_call, fl_children, rt_vars, ag_vars, ss_vars, ev_vars, rc_vars, fn_vars, ma_vars, ex_vars>>

\* SmartCalculationEngine.aggregate_to_ps
SmartAggregateToPSBinary64 ==
  /\ fl_call = "smart"
  /\ fl_out.rating = "pending"
  /\ fl_out' = aggregate_to_ps_binary64(fl_children)
  /\ UNCHANGED <<fl_call, fl_children, rt_vars, ag_vars, ss_vars, ev_vars, rc_vars, fn_vars, ma_vars, ex_vars>>

FloatNext ==
  \/ WeightedAggregateToPSBinary64
  \/ SmartAggregateToPSBinary64

SpecFloat == FloatInit /\ [][FloatNext]_vars

\* the call on the same children in another order
Reordered(children, p) == [i \in 1..Len(children) |-> children[p[i]]]

AggregateBinary64(call, children) ==
  IF call = "weighted" THEN WeightedAggregator_aggregate_to_ps_binary64(children)
  ELSE aggregate_to_ps_binary64(children)

\* C13: aggregate_to_ps returns the same value and rating for every
\* permutation of the parent's child list, and again on the same list: the
\* value and rating returned are those of the call on each reordering
C13_OrderIndependent ==
  fl_out.rating # "pending" =>
    \A p \in Permutations(1..Len(fl_children)) :
      AggregateBinary64(fl_call, Reordered(fl_children, p)) = fl_out

(***************************************************************************)
(* Further aggregation claims, over SpecAgg.                               *)
(***************************************************************************)
ScaleTop(call) == IF call.impl = "smart" THEN QOne ELSE QHundred

\* every child has a calculated numeric value within the scale
AllValid(call, children) ==
  \A i \in 1..Len(children) :
    /\ children[i].state = "valid"
    /\ QLe(children[i].result.value, ScaleTop(call))

DbWeight(children) ==
  LET sum[i \in 0..Len(children)] ==
        IF i = 0 THEN 0 ELSE sum[i - 1] + children[i].weight
  IN  sum[Len(children)]

DbProduct(children) ==
  LET sum[i \in 0..Len(children)] ==
        IF i = 0 THEN QZero
        ELSE QAdd(sum[i - 1], QMul(children[i].result.value,
                                   QInt(children[i].weight)))
  IN  sum[Len(children)]

ValueSum(children) ==
  LET sum[i \in 0..Len(children)] ==
        IF i = 0 THEN QZero ELSE QAdd(sum[i - 1], children[i].result.value)
  IN  sum[Len(children)]

Mean(children) == QDiv(ValueSum(children), QInt(Len(children)))

NoValidChild(children) ==
  \A i \in 1..Len(children) : children[i].state # "valid"

\* C14: when the weights of a parent's valid children add up to 0 the value
\* returned is the unweighted mean of the child values; a child of weight 0
\* beside weighted children enters with weight 0; a no-data result is
\* returned only when no child holds a calculated numeric value
C14_ZeroWeightFallback ==
  ag_done =>
    /\ (AllValid(ag_call, ag_children) /\ DbWeight(ag_children) = 0)
         => /\ Numeric(ag_out)
            /\ ag_out.value = Mean(ag_children)
    /\ (AllValid(ag_call, ag_children) /\ DbWeight(ag_children) > 0)
         => /\ Numeric(ag_out)
            /\ ag_out.value = QDiv(DbProduct(ag_children),
                                   QInt(DbWeight(ag_children)))
    /\ ~Numeric(ag_out) => NoValidChild(ag_children)

\* the children with every value brought down to the upper bound of the scale
Clamped(call, children) ==
  [i \in 1..Len(children) |->
     [children[i] EXCEPT !.result.value = QMin(@, ScaleTop(call))]]

\* C15: every child value is clamped to the upper bound of the scale (100,
\* or 1 on the decimal scale) before it enters the average, on the weighted
\* path and on the fallback path: the value returned is the value returned
\* for the same children with their values at most the upper bound
C15_ClampedBeforeAverage ==
  ag_done =>
    SameValue(ag_out,
              Aggregate(ag_call, Clamped(ag_call, ag_children), ag_thresholds))

(***************************************************************************)
(* SpecOverall: one computation of the overall score from the results of   *)
(* up to MaxChildren Key Topics, by WeightedAggregator.calculate_overall,  *)
(* MainAGModule._calculate_overall_score or the executive dashboard.       *)
(***************************************************************************)
\* sum(values) / len(values) over the results picked by take
mean_of(results, order, take(_), number(_)) ==
  LET picked == SelectSeq(order, LAMBDA kt : take(results[kt]))
      sum[i \in 0..Len(picked)] ==
        IF i = 0 THEN QZero
        ELSE QAdd(sum[i - 1], number(results[picked[i]]))
  IN  [count |-> Len(picked), sum |-> sum[Len(picked)]]

\* WeightedAggregator.calculate_overall
calculate_overall(kts, order) ==
  LET values == mean_of(kts, order,
                        LAMBDA r : r.kind = "num",
                        LAMBDA r : QMin(r.value, QHundred))
  IN  IF values.count > 0
        THEN NumResult(QDiv(values.sum, QInt(values.count)), "", "")
        ELSE NumResult(QZero, "", "")

\* MainAGModule._calculate_overall_score
calculate_overall_score(results, order) ==
  LET scores == mean_of(results, order,
                        LAMBDA r : /\ r.status = "calculated"
                                   /\ r.kind = "num"
                                   /\ r.value # QZero,
                        LAMBDA r : r.value)
  IN  IF scores.count > 0
        THEN NumResult(QDiv(scores.sum, QInt(scores.count)), "", "")
        ELSE NumResult(QZero, "", "")

\* AdvancedMeinhardt.render_executive_dashboard, overall_score
dashboard_overall_score(kts, order) ==
  LET kt_values == mean_of(kts, order,
                           LAMBDA r : r.kind = "num" /\ QGt(r.value, QZero),
                           LAMBDA r : r.value)
  IN  IF kt_values.count = 0
        THEN ErrorResult("No valid KT values calculated. Check your data.")
        ELSE NumResult(QDiv(kt_values.sum, QInt(kt_values.count)), "", "")

\* what WeightedAggregator.aggregate_to_kt returns
WeightedKTResults ==
  { Child(0, "valid", Result("num", v, "", WeightedAggregator_get_rating(v), "",
                             FALSE, "calculated", "")) :
      v \in {QZero, QInt(70), QInt(90), QHundred} }

\* what MainAGModule._calculate_kt_score stores
MainAGKTResults ==
  { Child(0, "valid", Result("num", v, "", MainAG_get_rating(v), "", FALSE,
                             "calculated", "")) : v \in PercentValues }
  \cup { Child(0, "error", Result("none", QZero, "", "N/A", "", FALSE, "error",
                                  "Total weight is zero")),
         Child(0, "incomplete",
               Result("none", QZero, "", "N/A", "", FALSE, "incomplete", "")) }

\* what SmartCalculationEngine.aggregate_to_kt returns
SmartKTResults ==
  { Child(0, "valid", NumResult(v, default_band(v), "")) :
      v \in DecimalValues \ {QZero} }
  \cup { Child(0, "error", ErrorResult("No valid PS values")) }

KTPool(impl) ==
  CASE impl = "weighted" -> WeightedKTResults
    [] impl = "mainag" -> MainAGKTResults
    [] impl = "enhanced" -> SmartKTResults

OverallInit ==
  /\ ag_call \in [impl : {"weighted", "mainag", "enhanced"}, level : {"overall"}]
  /\ \E m \in 1..MaxChildren : ag_children \in [1..m -> KTPool(ag_call.impl)]
  /\ ag_thresholds = NoThresholds
  /\ ag_done = FALSE
  /\ ag_out = NoResult
  /\ RatingIdle
  /\ SessionIdle
  /\ EvalIdle
  /\ RoutineIdle
  /\ FloatIdle
  /\ MainAGIdle
  /\ ExtrasIdle
  /\ FnIdle

WeightedCalculateOverall ==
  /\ Called("weighted", "overall")
  /\ ag_out' = calculate_overall(ChildResults(ag_children), ChildNames(ag_children))
  /\ ag_done' = TRUE
  /\ UNCHANGED <<ag_call, ag_children, ag_thresholds, rt_vars, ss_vars, ev_vars, rc_vars, fl_vars, fn_vars, ma_vars, ex_vars>>

MainAGCalculateOverallScore ==
  /\ Called("mainag", "overall")
  /\ ag_out' = calculate_overall_score(ChildResults(ag_children),
                                       ChildNames(ag_children))
  /\ ag_done' = TRUE
  /\ UNCHANGED <<ag_call, ag_children, ag_thresholds, rt_vars, ss_vars, ev_vars, rc_vars, fl_vars, fn_vars, ma_vars, ex_vars>>

RenderExecutiveDashboard ==
  /\ Called("enhanced", "overall")
  /\ ag_out' = dashboard_overall_score(ChildResults(ag_children),
                                       ChildNames(ag_children))
  /\ ag_done' = TRUE
  /\ UNCHANGED <<ag_call, ag_children, ag_thresholds, rt_vars, ss_vars, ev_vars, rc_vars, fl_vars, fn_vars, ma_vars, ex_vars>>

OverallNext ==
  \/ WeightedCalculateOverall
  \/ MainAGCalculateOverallScore
  \/ RenderExecutiveDashboard

SpecOverall == OverallInit /\ [][OverallNext]_vars

\* the Key Topics that have a calculated numeric value
CalculatedKTs(children) == SelectSeq(children, LAMBDA c : c.state = "valid")

\* C16: the overall score is the unweighted mean of the values of all Key
\* Topics that have a calculated numeric value, one of value 0 included
C16_OverallMean ==
  (ag_done /\ CalculatedKTs(ag_children) # <<>>) =>
    /\ Numeric(ag_out)
    /\ ag_out.value = Mean(CalculatedKTs(ag_children))

(***************************************************************************)
(* SpecMatch: one call of _score_dp_match_enhanced, as find_matching_dps   *)
(* makes it for a formula and the name of a data point.                    *)
(***************************************************************************)
MatchFormulas ==
  {Chars("Earned Value (EV) / Planned Value (PV)"),
   Chars("(EV) / (PV)"),
   Chars("Schedule Performance Index (EV) / (PV)"),
   Chars("Earned Value status"),
   Chars("Actual Cost / Planned Cost"),
   Chars("Cost (planned)"),
   Chars("Cost: actual"),
   Chars("Budget / Cost"),
   Chars("Number of defects closed / Total defects"),
   Chars("Completion of the plan: Yes or No"),
   Chars("Risk"),
   <<>>}

MatchDataPoints ==
  {Chars("Earned Value (EV)"), Chars("Planned Value (PV)"),
   Chars("Planned Cost"), Chars("Actual Cost"), Chars("Cost Budget"),
   Chars("Total Number of Defects"), Chars("Risk Register (RR)"),
   Chars("Completion Plan")}

MatchInit ==
  /\ fn_call = ""
  /\ fn_input \in [formula : MatchFormulas, dp_name : MatchDataPoints]
  /\ fn_out = QZero
  /\ RatingIdle
  /\ AggIdle
  /\ SessionIdle
  /\ EvalIdle
  /\ RoutineIdle
  /\ FloatIdle
  /\ MainAGIdle
  /\ ExtrasIdle

\* SmartCalculationEngine._score_dp_match_enhanced, from find_matching_dps
ScoreDpMatchEnhanced ==
  /\ fn_call = ""
  /\ fn_call' = "_score_dp_match_enhanced"
  /\ fn_out' = score_dp_match_enhanced(
                 fn_input.dp_name, clean_text(fn_input.formula),
                 words(str_lower(clean_text(fn_input.formula))) \ StopWords)
  /\ UNCHANGED <<fn_input, rt_vars, ag_vars, ss_vars, ev_vars, rc_vars, fl_vars, ma_vars, ex_vars>>

MatchNext == ScoreDpMatchEnhanced

SpecMatch == MatchInit /\ [][MatchNext]_vars

\* C17: the match confidence that _score_dp_match_enhanced returns for a
\* formula and a data-point name lies in the interval [0, 1]
C17_ConfidenceInUnitInterval ==
  fn_call = "_score_dp_match_enhanced" =>
    QGe(fn_out, QZero) /\ QLe(fn_out, QOne)

\* the rating a routine returns for a value and a thresholds dict
RoutineRating(routine, value, thresholds) ==
  CASE routine = "smart" -> apply_thresholds_smart(value, texts_of(thresholds))
    [] routine = "enhanced" -> get_rating_for_value(value, texts_of(thresholds))
    [] routine = "dashboard" -> calculate_rating_from_db(value, thresholds)

\* a percent-style expression written on the decimal scale: N% as N / 100
AsDecimal(expression) ==
  CASE expression = Chars(">90%") -> Chars(">0.9")
    [] expression = Chars("70-90%") -> Chars("0.7-0.9")
    [] expression = Chars("0.5-1.5%") -> Chars("0.005-0.015")
    [] expression = Chars("<1%") -> Chars("<0.01")
    [] OTHER -> expression

PercentStyle(thresholds) ==
  /\ thresholds.kind = "text"
  /\ \/ Contains(thresholds.good, "%")
     \/ Contains(thresholds.satisfactory, "%")
     \/ Contains(thresholds.needs_improvement, "%")

Decimalised(thresholds) ==
  Thresholds("text", AsDecimal(thresholds.good),
             AsDecimal(thresholds.satisfactory),
             AsDecimal(thresholds.needs_improvement))

\* C18: a percent-style threshold "N%" is applied to a decimal-scale value as
\* N / 100, both bounds of a range alike: the rating is the rating under the
\* same thresholds written on the decimal scale
C18_PercentNormalised ==
  (rc_out # "pending" /\ rc_call \in {"smart", "dashboard"}
     /\ PercentStyle(rc_thresholds) /\ QLe(rc_value, QOne))
    => rc_out = RoutineRating(rc_call, rc_value, Decimalised(rc_thresholds))

(***************************************************************************)
(* Further evaluator claims, over SpecEval.                                *)
(***************************************************************************)
\* the formulas of the pool that are one division of the two data points
CleanDivisions ==
  {Chars("Earned Value (EV) / Planned Value (PV)"),
   Chars("Earned Value / Planned Value"),
   Chars("(EV) / (PV)")}

Stored(values, name) == \E i \in 1..Len(values) : values[i].name = name

StoredValue(values, name) ==
  values[CHOOSE i \in 1..Len(values) : values[i].name = name].value

\* C19: for a formula that is one clean division of two data-point
\* references with stored values a and b, b # 0, FormulaParser.evaluate
\* returns a / b, with or without the parenthesised abbreviation after
\* each name (none of these formulas falls under the percentage convention)
C19_CleanDivision ==
  (/\ ev_call = "parser"
   /\ ev_formula \in CleanDivisions
   /\ Stored(ev_values, EvalDataPoints[1])
   /\ Stored(ev_values, EvalDataPoints[2])
   /\ StoredValue(ev_values, EvalDataPoints[2]) # QZero)
    => /\ ev_out.kind = "num"
       /\ ev_out.value = QDiv(StoredValue(ev_values, EvalDataPoints[1]),
                              StoredValue(ev_values, EvalDataPoints[2]))

(***************************************************************************)
(* SpecQual: the three qualitative evaluations applied to a data point     *)
(* that holds a text, which is what the text input and the Yes/No select   *)
(* box of the data-point form store in dp_values.                          *)
(***************************************************************************)
Synonyms(label, texts) == [label |-> Chars(label), texts |-> texts]

\* the if/elif chain over "value_lower in [...]": the label of the first
\* list that holds the lowered text, otherwise the fallback
mapped_label(table, value_lower, fallback) ==
  IF \E k \in 1..Len(table) : value_lower \in table[k].texts
    THEN table[CHOOSE k \in 1..Len(table) :
                 /\ value_lower \in table[k].texts
                 /\ \A j \in 1..(k - 1) : value_lower \notin table[j].texts].label
    ELSE fallback

QualLabel(text, status) == [kind |-> "str", text |-> text, status |-> status]
QualNone(status) == [kind |-> "none", text |-> <<>>, status |-> status]

\* FormulaParser._evaluate_qualitative on a str value
ParserSynonyms ==
  <<Synonyms("Yes", {Chars("yes"), Chars("true"), Chars("completed"),
                     Chars("applied"), Chars("full"), Chars("fully")}),
    Synonyms("No", {Chars("no"), Chars("false"), Chars("not completed"),
                    Chars("not applied"), Chars("none")}),
    Synonyms("Partially Applied", {Chars("partial"), Chars("partially"),
                                   Chars("in progress"), Chars("some"),
                                   Chars("partly")})>>

parser_evaluate_qualitative_str(formula, value) ==
  QualLabel(mapped_label(ParserSynonyms, str_lower(value), value), "")

\* QualitativeFormulaHandler.evaluate_qualitative on a str value (the label
\* of the returned pair)
HandlerSynonyms ==
  <<Synonyms("Yes", {Chars("yes"), Chars("completed"), Chars("applied"),
                     Chars("true")}),
    Synonyms("No", {Chars("no"), Chars("not completed"), Chars("not applied"),
                    Chars("false")}),
    Synonyms("Partially Applied", {Chars("partial"), Chars("partially"),
                                   Chars("in progress")})>>

handler_evaluate_qualitative_str(formula, value) ==
  QualLabel(mapped_label(HandlerSynonyms, str_lower(value), value), "")

\* FormulaEngine._evaluate_qualitative when dp_values holds one str value
EngineSynonyms ==
  <<Synonyms("Yes", {Chars("yes"), Chars("true"), Chars("1"),
                     Chars("completed"), Chars("done")}),
    Synonyms("No", {Chars("no"), Chars("false"), Chars("0"),
                    Chars("not completed"), Chars("pending")})>>

engine_qualitative_str(formula_lower, dp_references, dp_name, value) ==
  IF dp_references = <<>>
    THEN IF is_conditional(formula_lower)
           THEN QualLabel(IF value # <<>> THEN Chars("Yes") ELSE Chars("No"),
                          "calculated")
           ELSE QualNone("error")
  ELSE IF fuzzy_match_dp(Strip(str_lower(dp_references[1])),
                         <<[name |-> dp_name, value |-> QZero]>>) = 0
    THEN QualNone("incomplete")
  ELSE IF is_conditional(formula_lower)
    THEN QualLabel(mapped_label(EngineSynonyms, str_lower(value),
                                Chars("Partially Applied")), "calculated")
  ELSE QualLabel(value, "calculated")

engine_evaluate_qualitative_str(data_points, formula, dp_name, value) ==
  engine_qualitative_str(str_lower(formula),
                         extract_dp_references(data_points, formula),
                         dp_name, value)

QualDataPoints == <<Chars("Risk Register"), Chars("Completion Plan")>>

QualFormulas ==
  {Chars("Risk Register"),
   Chars("Risk Register in place: Yes or No"),
   Chars("Yes or No"),
   Chars("Status"),
   Chars("Completion Plan")}

QualTexts ==
  {Chars("Yes"), Chars("YES"), Chars("No"), Chars("N/A"), Chars("Partially"),
   Chars("in progress"), Chars("Fully"), Chars("done"), Chars("Yes, completed"),
   Chars("Not sure")}

QualInit ==
  /\ fn_call = ""
  /\ fn_input \in [formula : QualFormulas, dp_name : {QualDataPoints[1]},
                   value : QualTexts]
  /\ fn_out = QualNone("pending")
  /\ RatingIdle
  /\ AggIdle
  /\ SessionIdle
  /\ EvalIdle
  /\ RoutineIdle
  /\ FloatIdle
  /\ MainAGIdle
  /\ ExtrasIdle

\* FormulaParser._evaluate_qualitative(formula, {dp_name: value})
ParserEvaluateQualitative ==
  /\ fn_call = ""
  /\ fn_call' = "parser"
  /\ fn_out' = parser_evaluate_qualitative_str(fn_input.formula, fn_input.value)
  /\ UNCHANGED <<fn_input, rt_vars, ag_vars, ss_vars, ev_vars, rc_vars, fl_vars, ma_vars, ex_vars>>

\* QualitativeFormulaHandler.evaluate_qualitative(formula, {dp_name: value})
HandlerEvaluateQualitative ==
  /\ fn_call = ""
  /\ fn_call' = "handler"
  /\ fn_out' = handler_evaluate_qualitative_str(fn_input.formula, fn_input.value)
  /\ UNCHANGED <<fn_input, rt_vars, ag_vars, ss_vars, ev_vars, rc_vars, fl_vars, ma_vars, ex_vars>>

\* FormulaEngine._evaluate_qualitative(formula, {dp_name: value})
EngineEvaluateQualitative ==
  /\ fn_call = ""
  /\ fn_call' = "engine"
  /\ fn_out' = engine_evaluate_qualitative_str(QualDataPoints, fn_input.formula,
                                               fn_input.dp_name, fn_input.value)
  /\ UNCHANGED <<fn_input, rt_vars, ag_vars, ss_vars, ev_vars, rc_vars, fl_vars, ma_vars, ex_vars>>

QualNext ==
  \/ ParserEvaluateQualitative
  \/ HandlerEvaluateQualitative
  \/ EngineEvaluateQualitative

SpecQual == QualInit /\ [][QualNext]_vars

StandardLabels ==
  {Chars("Yes"), Chars("No"), Chars("Partially Applied"), Chars("N/A")}

\* the synonym table a qualitative evaluation consults
SynonymTable(call) ==
  IF call = "parser" THEN ParserSynonyms
  ELSE IF call = "handler" THEN HandlerSynonyms
  ELSE EngineSynonyms

\* the labels whose synonyms occur in the lowered text
ContainedLabels(call, value) ==
  {SynonymTable(call)[k].label : k \in
     {k \in 1..Len(SynonymTable(call)) :
        \E s \in SynonymTable(call)[k].texts : In(s, str_lower(value))}}

\* C20: the label a qualitative evaluation returns for the text of the
\* referenced data point is one of Yes, No, Partially Applied and N/A, never
\* the text itself, and a text that contains a synonym of the table (in any
\* letter case) gets the label of a synonym it contains
C20_ClosedLabelSet ==
  (fn_call \in {"parser", "handler", "engine"} /\ fn_out.kind = "str") =>
    /\ fn_out.text \in StandardLabels
    /\ ContainedLabels(fn_call, fn_input.value) # {} =>
         fn_out.text \in ContainedLabels(fn_call, fn_input.value)

(***************************************************************************)
(* SpecMainAG: a MainAGModule session (main_ag_module.py) over the file    *)
(* data/meinhardt_db.json.  Every handler starts from load_database(),     *)
(* which returns the content of the file, or {} when reading it fails.  A  *)
(* key that a dict lacks and a key that holds an empty dict are the same    *)
(* to every data.get(key, {}) of the module, and both are the empty         *)
(* function here.  The timestamps that the handlers store next to a result  *)
(* are left out.  The pillar tabs and the calculation mode are rendered     *)
(* only while an assessment is selected.                                    *)
(***************************************************************************)
DataFile(data_points, dp_pillar, assessment_criteria, ac_order,
         performance_signals, ps_order, key_topics, kt_order,
         assessments, assessment_values, assessment_results) ==
  [data_points |-> data_points, dp_pillar |-> dp_pillar,
   assessment_criteria |-> assessment_criteria, ac_order |-> ac_order,
   performance_signals |-> performance_signals, ps_order |-> ps_order,
   key_topics |-> key_topics, kt_order |-> kt_order,
   assessments |-> assessments, assessment_values |-> assessment_values,
   assessment_results |-> assessment_results]

\* JsonDatabase.load_database when open() or json.load() raises: {}
EmptyData ==
  DataFile(<<>>, <<>>, <<>>, <<>>, <<>>, <<>>, <<>>, <<>>, <<>>, <<>>, <<>>)

\* JsonDatabase.load_database
load_database(file, readable) == IF readable THEN file ELSE EmptyData

\* JsonDatabase.save_database: json.dump(data) replaces the file
save_database(file, data) == data

\* the hierarchy definitions of a database
Hierarchy(data) ==
  [key_topics |-> data.key_topics, performance_signals |-> data.performance_signals,
   assessment_criteria |-> data.assessment_criteria,
   data_points |-> data.data_points, dp_pillar |-> data.dp_pillar]

\* MainAGModule._get_ac_pillar: the pillar of the KT of the first PS that
\* lists the AC and names a KT of the database
get_ac_pillar(data, ac_name) ==
  LET holders == SelectSeq(data.ps_order, LAMBDA ps :
                   /\ \E i \in 1..Len(data.performance_signals[ps].assessment_criteria) :
                        data.performance_signals[ps].assessment_criteria[i] = ac_name
                   /\ data.performance_signals[ps].key_topic \in DOMAIN data.key_topics)
  IN  IF holders = <<>> THEN "Unknown"
      ELSE data.key_topics[data.performance_signals[holders[1]].key_topic].pillar

\* MainAGModule._get_ps_pillar: the pillar of the first AC of the PS
get_ps_pillar(data, ps_name) ==
  LET mine == SelectSeq(data.ac_order, LAMBDA ac :
                data.assessment_criteria[ac].performance_signal = ps_name)
  IN  IF mine = <<>> THEN "Unknown" ELSE get_ac_pillar(data, mine[1])

\* "if dp_ref.lower() in dp_name.lower() or dp_name.lower() in dp_ref.lower()"
ref_names(dp_ref, dp_name) ==
  \/ In(str_lower(dp_ref), str_lower(dp_name))
  \/ In(str_lower(dp_name), str_lower(dp_ref))

\* _calculate_ac_score, "Get DP values needed for this AC": for each
\* reference the first session value whose name it matches, keyed by name
needed_values(dp_refs, values) ==
  LET found[k \in 0..Len(dp_refs)] ==
        IF k = 0 THEN <<>>
        ELSE LET hits == SelectSeq(values, LAMBDA dp : ref_names(dp_refs[k], dp.name))
             IN  IF hits = <<>> THEN found[k - 1]
                 ELSE IF \E i \in 1..Len(found[k - 1]) :
                           found[k - 1][i].name = hits[1].name
                   THEN found[k - 1]
                 ELSE Append(found[k - 1], hits[1])
  IN  found[Len(dp_refs)]

\* "rating = 'N/A'; if status == 'calculated' and result is not None: ..."
ac_score_rated(evaluated_to, ac) ==
  IF evaluated_to.status = "calculated" /\ evaluated_to.kind = "num"
    THEN [evaluated_to EXCEPT
            !.rating = get_ac_rating(evaluated_to.value, ac.thresholds,
                                     ac.formula_type)]
    ELSE [evaluated_to EXCEPT !.rating = "N/A"]

\* MainAGModule._calculate_ac_score: the entry stored under "ac_" + ac_name
calculate_ac_score(data, ac, values) ==
  ac_score_rated(
    engine_evaluate(data.data_points, ac.formula,
                    needed_values(extract_dp_references(data.data_points, ac.formula),
                                  values),
                    ac.formula_type),
    ac)

\* the hierarchy of the session's database: two ACs under one PS and KT
\* (records that name their parent under both keys the module reads,
\* "key_topic" and "key_topic_name")
MainAGDataPoints ==
  <<Chars("Defects Closed (No.)"), Chars("Inspections Done (No.)"),
    Chars("Earned Value (EV)"), Chars("Planned Value (PV)")>>

NoAssessments ==
  DataFile(MainAGDataPoints, <<"P&M", "P&M", "P&M", "P&M">>,
           [name \in {"AC1", "AC2"} |->
              IF name = "AC1"
                THEN AC(Chars("Defects Closed / Inspections Done * 100"),
                        Thresholds("absent", <<>>, <<>>, <<>>), 60, "PS1",
                        "quantitative")
                ELSE AC(Chars("Earned Value (EV) / Planned Value (PV) * 100"),
                        Thresholds("absent", <<>>, <<>>, <<>>), 40, "PS1",
                        "quantitative")],
           <<"AC1", "AC2">>,
           ("PS1" :> PS(<<"AC1", "AC2">>, 1, NoThresholds, "KT1")),
           <<"PS1">>,
           ("KT1" :> KT(<<"PS1">>, NoThresholds, "P&M")),
           <<"KT1">>,
           <<>>, <<>>, <<>>)

\* what the operator types into a number input, and where
MainAGInputs ==
  {<<MainAGDataPoints[1], QInt(70)>>, <<MainAGDataPoints[1], QInt(90)>>,
   <<MainAGDataPoints[3], QInt(70)>>}

\* calculation_results[key] = entry
put(results, key, entry) ==
  [k \in DOMAIN results \cup {key} |-> IF k = key THEN entry ELSE results[k]]

\* the entries of calculation_results under a prefix, by the name after it:
\* key.startswith(prefix) and key[3:]
under(results, prefix) ==
  [name \in {SubSeq(k, 4, Len(k)) :
               k \in {k \in DOMAIN results : SubSeq(k, 1, 3) = prefix}} |->
     results[prefix \o name]]

\* "for name in order: if chosen(name): calculation_results[key] = entry"
store_each(order, chosen(_), results, prefix, entry(_, _)) ==
  LET after[k \in 0..Len(order)] ==
        IF k = 0 THEN results
        ELSE IF chosen(order[k])
          THEN put(after[k - 1], prefix \o order[k], entry(order[k], after[k - 1]))
          ELSE after[k - 1]
  IN  after[Len(order)]

\* the AC, PS and KT loops that _calculate_pillar_scores and
\* _calculate_affected_scores share: _calculate_ac_score,
\* _calculate_ps_score, _calculate_kt_score of the chosen names
calculate_acs(data, chosen(_), values, results) ==
  store_each(data.ac_order, chosen, results, "ac_",
             LAMBDA ac, so_far : calculate_ac_score(data, data.assessment_criteria[ac], values))

calculate_pss(data, chosen(_), results) ==
  store_each(data.ps_order, chosen, results, "ps_",
             LAMBDA ps, so_far :
               MainAG_calculate_ps_score(data, ps, under(so_far, "ac_")))

calculate_kts(data, chosen(_), results) ==
  store_each(data.kt_order, chosen, results, "kt_",
             LAMBDA kt, so_far :
               MainAG_calculate_kt_score(data, kt, under(so_far, "ps_")))

\* MainAGModule._calculate_pillar_scores: "Step 1", "Step 2", "Step 3"
calculate_pillar_scores(data, pillar, values, results) ==
  calculate_kts(data, LAMBDA kt : data.key_topics[kt].pillar = pillar,
    calculate_pss(data, LAMBDA ps : get_ps_pillar(data, ps) = pillar,
      calculate_acs(data, LAMBDA ac : get_ac_pillar(data, ac) = pillar,
                    values, results)))

\* MainAGModule._calculate_all_scores: the pillars of the data points
actual_pillars(data) ==
  {data.dp_pillar[i] : i \in 1..Len(data.dp_pillar)} \ {""}

RECURSIVE calculate_pillars(_, _, _, _)
calculate_pillars(data, pillars, values, results) ==
  IF pillars = {} THEN results
  ELSE LET pillar == CHOOSE p \in pillars : TRUE
       IN  calculate_pillars(data, pillars \ {pillar}, values,
                             calculate_pillar_scores(data, pillar, values, results))

calculate_all_scores(data, values, results) ==
  calculate_pillars(data, actual_pillars(data), values, results)

\* MainAGModule._calculate_affected_scores
affected_acs(data, dp_name) ==
  {ac \in DOMAIN data.assessment_criteria :
     In(str_lower(dp_name), str_lower(data.assessment_criteria[ac].formula))}

affected_ps(data, dp_name) ==
  {data.assessment_criteria[ac].performance_signal :
     ac \in affected_acs(data, dp_name)} \ {""}

affected_kt(data, dp_name) ==
  {data.performance_signals[ps].key_topic :
     ps \in affected_ps(data, dp_name) \cap DOMAIN data.performance_signals} \ {""}

calculate_affected_scores(data, dp_name, values, results) ==
  calculate_kts(data, LAMBDA kt : kt \in affected_kt(data, dp_name),
    calculate_pss(data, LAMBDA ps : ps \in affected_ps(data, dp_name),
      calculate_acs(data, LAMBDA ac : ac \in affected_acs(data, dp_name),
                    values, results)))

\* MainAGModule._save_assessment: the data handed to save_database
StoredResults(ac_scores, ps_scores, kt_scores) ==
  [ac_scores |-> ac_scores, ps_scores |-> ps_scores, kt_scores |-> kt_scores]

saved_data(data, assessment_id, values, results) ==
  [data EXCEPT
     !.assessment_values = put(data.assessment_values, assessment_id, values),
     !.assessment_results =
        put(data.assessment_results, assessment_id,
            StoredResults(under(results, "ac_"), under(results, "ps_"),
                          under(results, "kt_")))]

\* MainAGModule._load_assessment: session_state.dp_values and
\* session_state.calculation_results after it
loaded_values(data, assessment_id) ==
  IF assessment_id \in DOMAIN data.assessment_values
    THEN data.assessment_values[assessment_id] ELSE <<>>

prefixed(scores, prefix) ==
  [key \in {prefix \o name : name \in DOMAIN scores} |->
     scores[SubSeq(key, 4, Len(key))]]

joined(ac_entries, ps_entries, kt_entries) ==
  [key \in DOMAIN ac_entries \cup DOMAIN ps_entries \cup DOMAIN kt_entries |->
     IF key \in DOMAIN kt_entries THEN kt_entries[key]
     ELSE IF key \in DOMAIN ps_entries THEN ps_entries[key]
     ELSE ac_entries[key]]

loaded_results(data, assessment_id) ==
  IF assessment_id \in DOMAIN data.assessment_results
    THEN joined(prefixed(data.assessment_results[assessment_id].ac_scores, "ac_"),
                prefixed(data.assessment_results[assessment_id].ps_scores, "ps_"),
                prefixed(data.assessment_results[assessment_id].kt_scores, "kt_"))
    ELSE <<>>

\* MainAGModule._create_new_assessment: the data handed to save_database
created_data(data, assessment_id, project_name) ==
  [data EXCEPT
     !.assessments = put(data.assessments, assessment_id,
                         [project_name |-> project_name, status |-> "draft",
                          version |-> 1]),
     !.assessment_values = put(data.assessment_values, assessment_id, <<>>),
     !.assessment_results =
        put(data.assessment_results, assessment_id,
            StoredResults(<<>>, <<>>, <<>>))]

\* an assessment saved by an earlier session, its scores not yet calculated
EarlierAssessment == "Tower_20240101_090000"
NewAssessment == "Bridge_20240102_100000"

EarlierValues ==
  <<[name |-> MainAGDataPoints[2], value |-> QInt(100)],
    [name |-> MainAGDataPoints[3], value |-> QInt(90)],
    [name |-> MainAGDataPoints[4], value |-> QInt(100)]>>

OneAssessment ==
  saved_data(created_data(NoAssessments, EarlierAssessment, "Tower"),
             EarlierAssessment, EarlierValues, <<>>)


\* MainAGModule.__init__: the session state of a first run
MainAGInit ==
  /\ ma_file = OneAssessment
  /\ ma_current = ""
  /\ ma_values = <<>>
  /\ ma_results = <<>>
  /\ auto_calculate = FALSE
  /\ ma_call = ""
  /\ RatingIdle
  /\ AggIdle
  /\ SessionIdle
  /\ EvalIdle
  /\ RoutineIdle
  /\ FloatIdle
  /\ FnIdle
  /\ ExtrasIdle

OtherGroupsUnchanged ==
  UNCHANGED <<rt_vars, ag_vars, ss_vars, ev_vars, rc_vars, fl_vars, fn_vars,
              ex_vars>>

\* dp_values[dp_name] = value
with_value(values, dp_name, value) ==
  IF index_of(values, dp_name) = 0
    THEN Append(values, [name |-> dp_name, value |-> value])
    ELSE [values EXCEPT ![index_of(values, dp_name)].value = value]

\* a handler that hands what load_database() returned, after a read that
\* failed, to save_database
file_rewritten(file, results) ==
  save_database(file, load_database(file, FALSE))

\* the file after _calculate_all_scores, _calculate_pillar_scores and
\* _calculate_affected_scores: they store into session_state
\* .calculation_results and make no call to save_database, and the dicts
\* that load_database() gave them are read with get() only
file_after_calculation(file, results) == file

\* _render_dp_input, a number input: "if value is not None and value !=
\* current_value", then "if st.session_state.auto_calculate"
RenderDpInput ==
  \E input \in MainAGInputs :
    /\ ma_current # ""
    /\ IF index_of(ma_values, input[1]) = 0 THEN TRUE
       ELSE ma_values[index_of(ma_values, input[1])].value # input[2]
    /\ ma_values' = with_value(ma_values, input[1], input[2])
    /\ ma_results' =
         IF auto_calculate
           THEN calculate_affected_scores(load_database(ma_file, TRUE), input[1],
                                          ma_values', ma_results)
           ELSE ma_results
    /\ ma_file' = IF auto_calculate
                    THEN file_after_calculation(ma_file, ma_results')
                    ELSE ma_file
    /\ ma_call' = IF auto_calculate THEN "_calculate_affected_scores"
                  ELSE "_render_dp_input"
    /\ UNCHANGED <<ma_current, auto_calculate>>
    /\ OtherGroupsUnchanged

\* _render_calculation_mode: the "Auto-calculate" checkbox
SetAutoCalculate ==
  /\ ma_current # ""
  /\ auto_calculate' = ~auto_calculate
  /\ ma_call' = "_render_calculation_mode"
  /\ UNCHANGED <<ma_file, ma_current, ma_values, ma_results>>
  /\ OtherGroupsUnchanged

\* the "Calculate All" button, disabled while auto_calculate is set
CalculateAllScores ==
  /\ ma_current # ""
  /\ ~auto_calculate
  /\ ma_results' = calculate_all_scores(load_database(ma_file, TRUE), ma_values,
                                        ma_results)
  /\ ma_file' = file_after_calculation(ma_file, ma_results')
  /\ ma_call' = "_calculate_all_scores"
  /\ UNCHANGED <<ma_current, ma_values, auto_calculate>>
  /\ OtherGroupsUnchanged

\* the "Calculate" button of a pillar tab, shown without auto_calculate
CalculatePillarScores ==
  \E pillar \in actual_pillars(load_database(ma_file, TRUE)) :
    /\ ma_current # ""
    /\ ~auto_calculate
    /\ ma_results' = calculate_pillar_scores(load_database(ma_file, TRUE), pillar,
                                             ma_values, ma_results)
    /\ ma_file' = file_after_calculation(ma_file, ma_results')
    /\ ma_call' = "_calculate_pillar_scores"
    /\ UNCHANGED <<ma_current, ma_values, auto_calculate>>
    /\ OtherGroupsUnchanged

\* _render_assessment_selector, the select box: current_assessment = selected
\* and _load_assessment(selected)
LoadAssessment ==
  \E selected \in DOMAIN ma_file.assessments, readable \in BOOLEAN :
    /\ selected # ma_current
    /\ ma_current' = selected
    /\ ma_values' = loaded_values(load_database(ma_file, readable), selected)
    /\ ma_results' = loaded_results(load_database(ma_file, readable), selected)
    /\ ma_call' = "_load_assessment"
    /\ UNCHANGED <<ma_file, auto_calculate>>
    /\ OtherGroupsUnchanged

\* the "Save Assessment" button: _save_assessment
SaveAssessment ==
  \E readable \in BOOLEAN :
    /\ ma_current # ""
    /\ ma_file' = save_database(ma_file,
                                saved_data(load_database(ma_file, readable),
                                           ma_current, ma_values, ma_results))
    /\ ma_call' = "_save_assessment"
    /\ UNCHANGED <<ma_current, ma_values, ma_results, auto_calculate>>
    /\ OtherGroupsUnchanged

\* the "New Assessment" button: _create_new_assessment(project_name), whose
\* identifier is the project name and the time of the click
CreateNewAssessment ==
  \E readable \in BOOLEAN :
    /\ NewAssessment \notin DOMAIN ma_file.assessments
    /\ ma_file' = save_database(ma_file,
                                created_data(load_database(ma_file, readable),
                                             NewAssessment, "Bridge"))
    /\ ma_current' = NewAssessment
    /\ ma_values' = <<>>
    /\ ma_results' = <<>>
    /\ ma_call' = "_create_new_assessment"
    /\ UNCHANGED auto_calculate
    /\ OtherGroupsUnchanged

\* the handlers that enter values and calculate
MainAGNext ==
  \/ RenderDpInput
  \/ SetAutoCalculate
  \/ CalculateAllScores
  \/ CalculatePillarScores
  \/ LoadAssessment

SpecMainAG == MainAGInit /\ [][MainAGNext]_vars

\* the file left by an earlier session that pressed "Calculate All" and then
\* "Save Assessment"
CalculatedAssessment ==
  saved_data(OneAssessment, EarlierAssessment, EarlierValues,
             calculate_all_scores(OneAssessment, EarlierValues, <<>>))

StoreInit ==
  /\ ma_file = CalculatedAssessment
  /\ ma_current = ""
  /\ ma_values = <<>>
  /\ ma_results = <<>>
  /\ auto_calculate = FALSE
  /\ ma_call = ""
  /\ RatingIdle
  /\ AggIdle
  /\ SessionIdle
  /\ EvalIdle
  /\ RoutineIdle
  /\ FloatIdle
  /\ FnIdle
  /\ ExtrasIdle

\* SpecStore: the handlers that write and read the stored assessments
StoreNext ==
  \/ RenderDpInput
  \/ LoadAssessment
  \/ SaveAssessment
  \/ CreateNewAssessment

SpecStore == StoreInit /\ [][StoreNext]_vars

\* ---------------------------------------------------------------------------
\* Incremental and wholesale recalculation in MainAGModule
\* ---------------------------------------------------------------------------

\* the results the "Calculate All" button stores over results, for a
\* session that holds values over the file
wholesale_results(file, values, results) ==
  calculate_all_scores(load_database(file, TRUE), values, results)

\* C24: incremental recalculation is equivalent to wholesale recalculation:
\* when the stored results are those of _calculate_all_scores and one data
\* point is changed and followed by _calculate_affected_scores, the stored
\* AC, PS and KT results are again those that _calculate_all_scores produces
\* from the current values.
C24_IncrementalIsWholesale ==
  [][(/\ ma_call' = "_calculate_affected_scores"
      /\ ma_results # <<>>
      /\ ma_results = wholesale_results(ma_file, ma_values, ma_results))
       => ma_results' = wholesale_results(ma_file', ma_values', ma_results')]_vars

(***************************************************************************)
(* SpecCalc: the calculation runs of both applications, an                 *)
(* AdvancedMeinhardt session over its loaded database and a MainAGModule   *)
(* session over its file.                                                  *)
(***************************************************************************)
CalcInit == Init \/ MainAGInit

CalcNext ==
  \/ db # <<>> /\ SetDpValue
  \/ db # <<>> /\ CalculateAllComprehensive
  \/ ma_file # <<>> /\ RenderDpInput
  \/ ma_file # <<>> /\ SetAutoCalculate
  \/ ma_file # <<>> /\ CalculateAllScores
  \/ ma_file # <<>> /\ CalculatePillarScores
  \/ ma_file # <<>> /\ LoadAssessment

SpecCalc == CalcInit /\ [][CalcNext]_vars

\* the AC, PS and KT definitions of a database: formulas, weights,
\* thresholds and the parent and child lists
Definitions(data) ==
  IF data = <<>> THEN <<>>
  ELSE [key_topics |-> data.key_topics,
        performance_signals |-> data.performance_signals,
        assessment_criteria |-> data.assessment_criteria]

CalculationCalls ==
  {"_calculate_all_scores", "_calculate_pillar_scores",
   "_calculate_affected_scores"}

\* C21: the hierarchy is read-only to the calculation engine: a step of
\* calculate_all_comprehensive (calculate_ac, aggregate_to_ps and
\* aggregate_to_kt for every AC, PS and KT), of _calculate_all_scores, of
\* _calculate_pillar_scores or of _calculate_affected_scores leaves every
\* AC, PS and KT definition of the database as it was.
C21_HierarchyReadOnly ==
  [][(\/ ma_call' \in CalculationCalls
      \/ (db # <<>> /\ dp_values' = dp_values /\ ac_results' # <<>>))
       => /\ Definitions(ma_file') = Definitions(ma_file)
          /\ Definitions(db') = Definitions(db)]_vars

\* scores calculated after a change of one value, over the definitions the
\* file had from the start
C21_Witness ==
  /\ ma_call = "_calculate_affected_scores"
  /\ ma_results # <<>>
  /\ Definitions(ma_file) = Definitions(NoAssessments)

\* ---------------------------------------------------------------------------
\* Children of value zero in the weighted average (SpecAgg)
\* ---------------------------------------------------------------------------
\* the sums over every child, for a list whose children are all valid
AllWeight(children) ==
  LET sum[i \in 0..Len(children)] ==
        IF i = 0 THEN 0 ELSE sum[i - 1] + children[i].weight
  IN  sum[Len(children)]

AllProduct(call, children) ==
  LET sum[i \in 0..Len(children)] ==
        IF i = 0 THEN QZero
        ELSE QAdd(sum[i - 1], QMul(ChildValue(call, children[i]),
                                   QInt(children[i].weight)))
  IN  sum[Len(children)]

\* every child has a calculated number and a weight of its own, and one of
\* the numbers is 0
ValidWithZero ==
  /\ \A i \in 1..Len(ag_children) :
       /\ ag_children[i].state = "valid"
       /\ ag_children[i].result.kind = "num"
       /\ ag_children[i].weight > 0
  /\ \E i \in 1..Len(ag_children) : ag_children[i].result.value = QZero

\* C22: the weighted average of a parent is taken over every child that has
\* a valid calculated numeric value: a child whose value is exactly 0 is
\* included with its weight in the numerator and in the denominator, so a
\* parent whose children are all valid has the average over all of them.
C22_ZeroChildIncluded ==
  (ag_done /\ ValidWithZero) =>
    /\ Numeric(ag_out)
    /\ ag_out.value = QDiv(AllProduct(ag_call, ag_children),
                           QInt(AllWeight(ag_children)))

\* ---------------------------------------------------------------------------
\* The rating shown on the dashboard and the rating stored (SpecRoutines)
\* ---------------------------------------------------------------------------
\* C29: the rating displayed is the rating computed: for every value and
\* threshold set the dashboard's _calculate_rating_from_db returns the rating
\* that the engine's _apply_thresholds_smart returns, and that
\* get_rating_for_value returns, for the same inputs.
C29_DashboardRatingIsEngineRating ==
  (rc_out # "pending" /\ rc_call = "dashboard") =>
    /\ rc_out = RoutineRating("smart", rc_value, rc_thresholds)
    /\ rc_out = RoutineRating("enhanced", rc_value, rc_thresholds)

\* ---------------------------------------------------------------------------
\* The order of a calculation run (Spec)
\* ---------------------------------------------------------------------------
\* C25: a calculation run proceeds bottom-up, so when a run of
\* calculate_all_comprehensive ends every stored PS result is the
\* aggregation of the AC results the run stored and every stored KT result
\* is the aggregation of the PS results the run stored.
C25_BottomUpRun ==
  [][(dp_values' = dp_values /\ ac_results' # <<>>) =>
       /\ \A ps \in Range(db.ps_order) :
            /\ ps \in DOMAIN ps_results'
            /\ ps_results'[ps] = aggregate_to_ps(db, ps, ac_results')
       /\ \A kt \in Range(db.kt_order) :
            /\ kt \in DOMAIN kt_results'
            /\ kt_results'[kt] = aggregate_to_kt(db, kt, ps_results')]_vars

\* ---------------------------------------------------------------------------
\* Saving and loading assessments (SpecStore)
\* ---------------------------------------------------------------------------
\* the stored values and results of the assessments other than this one
OtherAssessments(data, assessment_id) ==
  [assessments |->
     [a \in DOMAIN data.assessments \ {assessment_id} |-> data.assessments[a]],
   assessment_values |->
     [a \in DOMAIN data.assessment_values \ {assessment_id} |->
        data.assessment_values[a]],
   assessment_results |->
     [a \in DOMAIN data.assessment_results \ {assessment_id} |->
        data.assessment_results[a]]]

\* C27: saving an assessment writes only that assessment: after
\* _save_assessment, whether its load of the database succeeded or failed,
\* the stored hierarchy definitions (key_topics, performance_signals,
\* assessment_criteria, data_points) and the stored values and results of
\* every other assessment are the same as before the save.
C27_SaveWritesOneAssessment ==
  [][ma_call' = "_save_assessment" =>
       /\ Hierarchy(ma_file') = Hierarchy(ma_file)
       /\ OtherAssessments(ma_file', ma_current) =
            OtherAssessments(ma_file, ma_current)]_vars

\* a result dict as the pairs of its keys and entries
Entries(results) == {<<key, results[key]>> : key \in DOMAIN results}

\* what the file holds for an assessment, in the keys of the session
StoredEntries(data, assessment_id) ==
  LET scores == data.assessment_results[assessment_id]
  IN  {<<"ac_" \o name, scores.ac_scores[name]>> : name \in DOMAIN scores.ac_scores}
      \cup {<<"ps_" \o name, scores.ps_scores[name]>> :
              name \in DOMAIN scores.ps_scores}
      \cup {<<"kt_" \o name, scores.kt_scores[name]>> :
              name \in DOMAIN scores.kt_scores}

\* C28: save followed by load is a round trip: _save_assessment leaves in
\* the file, under the current assessment, the values and the AC, PS and KT
\* results of the session, and _load_assessment of an assessment leaves in
\* the session exactly the values and results the file holds for it, so
\* none of another assessment's.
C28_SaveLoadRoundTrip ==
  [][/\ ma_call' = "_save_assessment" =>
          /\ ma_file'.assessment_values[ma_current] = ma_values
          /\ StoredEntries(ma_file', ma_current) = Entries(ma_results)
     /\ ma_call' = "_load_assessment" =>
          /\ ma_values' = ma_file.assessment_values[ma_current']
          /\ Entries(ma_results') = StoredEntries(ma_file, ma_current')]_vars

(***************************************************************************)
(* SpecSubst: the evaluators called on formulas in which one reference     *)
(* contains another, with a value of its own stored for each.              *)
(***************************************************************************)
ShortName == Chars("Actual Cost (AC)")
LongName == Chars("Budget at Completion (BAC)")

\* the reference AC is part of the reference BAC
SubstFormulas ==
  {Chars("(AC) / (BAC)"),
   Chars("(BAC) / (AC)"),
   Chars("(AC) * (BAC)"),
   Chars("Actual Cost (AC) / Budget at Completion (BAC)")}

SubstNumbers == {QInt(2), QInt(50), QInt(200)}

\* the dicts over the two names, in both insertion orders
SubstValues ==
  {<<[name |-> n, value |-> v]>> : n \in {ShortName, LongName}, v \in SubstNumbers}
    \cup {<<[name |-> ShortName, value |-> v], [name |-> LongName, value |-> w]>> :
            v \in SubstNumbers, w \in SubstNumbers}
    \cup {<<[name |-> LongName, value |-> w], [name |-> ShortName, value |-> v]>> :
            v \in SubstNumbers, w \in SubstNumbers}

SubstInit ==
  /\ ev_formula \in SubstFormulas
  /\ ev_values \in SubstValues
  /\ ev_type \in {"quantitative", "qualitative"}
  /\ ev_call = ""
  /\ ev_out = NoResult
  /\ ev_expr = NotReached
  /\ RatingIdle
  /\ AggIdle
  /\ SessionIdle
  /\ RoutineIdle
  /\ FloatIdle
  /\ MainAGIdle
  /\ ExtrasIdle
  /\ FnIdle

SpecSubst == SubstInit /\ [][EvalNext]_vars

\* a mapping with its references in order of non-increasing length, those
\* of one length in the order they had
RECURSIVE longest_first(_)
longest_first(mapping) ==
  IF mapping = <<>> THEN <<>>
  ELSE LET first_longest == CHOOSE k \in 1..Len(mapping) :
                        /\ \A j \in 1..Len(mapping) :
                             Len(mapping[j].var) <= Len(mapping[k].var)
                        /\ \A j \in 1..(k - 1) :
                             Len(mapping[j].var) < Len(mapping[k].var)
       IN  <<mapping[first_longest]>>
             \o longest_first(SubSeq(mapping, 1, first_longest - 1)
                                \o SubSeq(mapping, first_longest + 1, Len(mapping)))

\* the references FormulaParser matched for a formula, with their values
parser_mapping(formula, variables) ==
  map_formula_to_dps(extract_needed_variables(formula), variables, 1, <<>>)

\* C23: matched references are substituted into the formula in order of
\* non-increasing name length, so that no substitution rewrites part of an
\* occurrence of a longer reference that contains it: the expression an
\* evaluator hands to evaluation is the formula with the matched
\* references replaced longest first.
C23_LongestFirst ==
  (ev_call = "parser" /\ ev_expr # NotReached) =>
    ev_expr = Reached(zero_guard(cleaned_text(
                replaced(Strip(ev_formula),
                         longest_first(parser_mapping(Strip(ev_formula), ev_values)),
                         1))))

(***************************************************************************)
(* SpecOverride: the session of Spec with the "Formula Issues" page, where *)
(* the operator overrides an AC that the last run listed as an issue.      *)
(***************************************************************************)
\* what the "Quick Override" sliders hold when "Apply" is pressed
OverrideScores == {Q(1, 2)}
OverrideRatings == {"Good"}

\* what the operator types into "Edit Formula"
EditedFormulas == {Chars("Earned Value (EV) - Planned Value (PV)")}

ManualOverride(score, rating) ==
  [kind |-> "dict", result |-> NumResult(score, rating, "manual_override"),
   formula |-> <<>>]

FormulaOverride(edited) ==
  [kind |-> "str", result |-> NoResult, formula |-> edited]

\* formula_overrides[ac_name] = override
with_override(overrides, ac_name, override) ==
  [name \in DOMAIN overrides \cup {ac_name} |->
     IF name = ac_name THEN override ELSE overrides[name]]

\* render_single_issue_advanced, "Quick Override": the "Apply" button
ApplyOverride ==
  \E ac_name \in Range(formula_issues), score \in OverrideScores,
     rating \in OverrideRatings :
    /\ formula_overrides' =
         with_override(formula_overrides, ac_name, ManualOverride(score, rating))
    /\ UNCHANGED <<ac_categories, ss_vars, rt_vars, ag_vars, ev_vars, rc_vars,
                   fl_vars, fn_vars, ma_vars>>

\* render_single_issue_advanced, "Formula Editor": the "Apply Formula" button
ApplyFormula ==
  \E ac_name \in Range(formula_issues), edited \in EditedFormulas :
    /\ formula_overrides' =
         with_override(formula_overrides, ac_name, FormulaOverride(edited))
    /\ UNCHANGED <<ac_categories, ss_vars, rt_vars, ag_vars, ev_vars, rc_vars,
                   fl_vars, fn_vars, ma_vars>>

OverrideNext ==
  \/ SetDpValue
  \/ CalculateAllComprehensive
  \/ ApplyOverride
  \/ ApplyFormula

SpecOverride == Init /\ [][OverrideNext]_vars

\* the database with the formula of an AC replaced by the edited one
with_formula(database, ac_name, edited) ==
  [database EXCEPT !.assessment_criteria[ac_name].formula = edited]

\* the result an override stands for: the manual score and rating, or the
\* evaluation of the edited formula
override_result(database, override, ac_name, values, inputs) ==
  IF override.kind = "dict" THEN override.result
  ELSE calculate_ac(with_formula(database, ac_name, override.formula), ac_name,
                    values, inputs)

\* C26: once an override is applied to an AC (a manual score and rating, or
\* an edited formula), the next calculate_all_comprehensive computes that
\* AC's result from the override rather than from the formula stored in the
\* database, and the PS aggregation that follows takes the overridden
\* result.
C26_OverrideUsed ==
  [][(dp_values' = dp_values /\ formula_overrides' = formula_overrides) =>
       \A ac_name \in DOMAIN formula_overrides \cap DOMAIN ac_results' :
         /\ ac_results'[ac_name] =
              override_result(db, formula_overrides[ac_name], ac_name,
                              dp_values, qualitative_inputs)
         /\ LET ps == db.assessment_criteria[ac_name].performance_signal
            IN  ps \in DOMAIN ps_results' =>
                  ps_results'[ps] = aggregate_to_ps(db, ps, ac_results')]_vars

(***************************************************************************)
(* SpecCategories: the script of main_ag_enhanced.py run again and again   *)
(* in one session.  Every run constructs AdvancedMeinhardt, whose __init__ *)
(* loads the database, fills the absent keys of the session state and      *)
(* categorizes the ACs; the session state outlives the run.                *)
(***************************************************************************)
\* the formulas an AC of the database can carry
CategoryFormulas ==
  {<<>>, Chars("nan"), Chars("Yes/No"), Chars("Score if A > B"),
   Chars("A / B"), Chars("Narrative")}

CategoryDatabases ==
  {[SessionDatabase(StandardThresholds) EXCEPT
      !.assessment_criteria["AC1"].formula = f1,
      !.assessment_criteria["AC2"].formula = f2,
      !.assessment_criteria["AC3"].formula = f3] :
     f1 \in CategoryFormulas, f2 \in CategoryFormulas, f3 \in CategoryFormulas}

\* the runs of the script one session is followed through
MaxInits == 3

category_keywords ==
  {Chars("yes/no"), Chars("applied"), Chars("completed"),
   Chars("satisfactory if"), Chars("good if"), Chars("strong if"),
   Chars("assess if"), Chars("score if"), Chars("yes if"), Chars("no if")}

\* the list categorize_acs appends an AC of this formula to
category_of(formula) ==
  IF formula = <<>> \/ formula = Chars("nan") THEN "descriptive"
  ELSE IF \E keyword \in category_keywords : In(keyword, str_lower(formula))
    THEN "qualitative"
  ELSE IF \E op \in {"+", "-", "*", "/", "%", "="} : Contains(formula, op)
    THEN "quantitative"
  ELSE "descriptive"

\* init_session_state: "if key not in st.session_state"
default_categories(categories) ==
  IF categories = <<>>
    THEN [quantitative |-> <<>>, qualitative |-> <<>>, descriptive |-> <<>>]
    ELSE categories

\* categorize_acs over the ACs from the k-th of the database order on
RECURSIVE categorize_from(_, _, _)
categorize_from(database, categories, k) ==
  IF k > Len(database.ac_order) THEN categories
  ELSE LET ac_name == database.ac_order[k]
           category == category_of(database.assessment_criteria[ac_name].formula)
       IN  categorize_from(database,
                           [categories EXCEPT ![category] = Append(@, ac_name)],
                           k + 1)

categorize_acs(database, categories) == categorize_from(database, categories, 1)

\* the number of ACs the three lists hold
categorized(categories) ==
  IF categories = <<>> THEN 0
  ELSE Len(categories.quantitative) + Len(categories.qualitative)
         + Len(categories.descriptive)

\* AdvancedMeinhardt.__init__: load_database, init_session_state,
\* categorize_acs (the keys other than ac_categories are present from the
\* first run on and are left as they are)
Construct ==
  /\ categorized(ac_categories) < MaxInits * Len(db.ac_order)
  /\ ac_categories' = categorize_acs(db, default_categories(ac_categories))
  /\ UNCHANGED <<formula_overrides, ss_vars, rt_vars, ag_vars, ev_vars,
                 rc_vars, fl_vars, fn_vars, ma_vars>>

\* a fresh session before the first run of the script
CategoriesInit ==
  /\ db \in CategoryDatabases
  /\ dp_values = <<>>
  /\ qualitative_inputs = <<>>
  /\ ac_results = <<>>
  /\ ps_results = <<>>
  /\ kt_results = <<>>
  /\ formula_issues = <<>>
  /\ uncaught = ""
  /\ RatingIdle
  /\ AggIdle
  /\ EvalIdle
  /\ RoutineIdle
  /\ FloatIdle
  /\ MainAGIdle
  /\ ExtrasIdle
  /\ FnIdle

CategoriesNext == Construct

SpecCategories == CategoriesInit /\ [][CategoriesNext]_vars

\* how many times name occurs in list
occurrences(list, name) == Cardinality({i \in 1..Len(list) : list[i] = name})

\* C30: after any number of initialisations in one session every AC of the
\* database is in exactly one of the category lists, exactly once.
C30_EachAcOnce ==
  ac_categories # <<>> =>
    \A ac_name \in DOMAIN db.assessment_criteria :
      occurrences(ac_categories.quantitative, ac_name)
        + occurrences(ac_categories.qualitative, ac_name)
        + occurrences(ac_categories.descriptive, ac_name) = 1

=============================================================================
